---- MODULE Spec2Model ----
(***************************************************************************)
(* Model of unpackbootimg: the boot / vendor-boot header decoders, the     *)
(* region layout they derive, and the extraction that follows.             *)
(*                                                                         *)
(* Machine words. The code computes page counts and offsets in uint32_t.   *)
(* TLC's integers are 32-bit signed, so a uint32_t is modelled as a word   *)
(* of WordBits bits (arithmetic % U32); every operation keeps the shape    *)
(* the code gives it (which sums and products are taken in the narrow      *)
(* type before widening to the 64-bit offset of an ImageEntry).            *)
(*                                                                         *)
(* Strings are sequences of byte values; a fixed-length string field of a  *)
(* file is given by its leading bytes, the rest of the field being NUL.    *)
(***************************************************************************)
EXTENDS Integers, Sequences, FiniteSets, TLC

VARIABLES
  file,          \* the input image: what each read of the decoder finds, and its length
  caller,        \* "main": the program; "api": a decoder called on the stream directly
  args,          \* ProgramArgs: [format, null_separator]
  cout,          \* standard output: the renderer that ran and what it wrote
  decoder,       \* "none" | "boot" | "vendor": the decoder that runs
  pc,            \* position in main / UnpackBootImage / UnpackVendorBootImage
  stream,        \* std::ifstream state: [pos, fail, eof, gcount]
  info,          \* the decoder's local BootImageInfo / VendorBootImageInfo
  reads,         \* the header fields the decoder asked the stream for, in order
  image_entries, \* std::vector<utils::ImageEntry>
  symlinks,      \* vendor_ramdisk_symlinks: <<output_name, declared name>> pairs
  entry_offsets, \* the absolute offsets the vendor decoder seeks to for table entries
  next_entry,    \* index of the next image entry to extract
  fs,            \* the output filesystem: directories, files and links created
  err,           \* the exception in flight: NoError or [type, context, name]
  returned,      \* the record the decoder returned: NoRecord or the info
  exit_status    \* main's exit status: "running" | "EXIT_SUCCESS" | "EXIT_FAILURE"

vars == <<file, caller, args, cout, decoder, pc, stream, info, reads, image_entries, symlinks,
          entry_offsets, next_entry, fs, err, returned, exit_status>>

-----------------------------------------------------------------------------
(* Bounds and program constants *)

WordBits == 14
MaxEntries == 2

U32 == 2 ^ WordBits

MAGIC_SIZE == 8
BOOT_IMAGE_HEADER_V3_PAGESIZE == 4096
SHA_LENGTH == 32
BOARDNAME_SIZE == 16
CMDLINE_SIZE == 512
EXTRA_CMDLINE_SIZE == 1024
EXTENDED_CMDLINE_SIZE == CMDLINE_SIZE + EXTRA_CMDLINE_SIZE
VENDOR_RAMDISK_NAME_SIZE == 32
VENDOR_CMDLINE_SIZE == 2048
VENDOR_BOARDNAME_SIZE == 16

BOOT_MAGIC == <<65, 78, 68, 82, 79, 73, 68, 33>>      \* "ANDROID!"
VENDOR_BOOT_MAGIC == <<86, 78, 68, 82, 66, 79, 79, 84>> \* "VNDRBOOT"

NoError == [type |-> "none", context |-> "", name |-> << >>]
NoRecord == [kind |-> "none"]

-----------------------------------------------------------------------------
(* uint32_t arithmetic *)

Add32(a, b) == (a + b) % U32
Mul32(a, b) == (a * b) % U32

\* GetNumberOfPages with a page_size of 0 counted as a page of one byte.
GetNumberOfPagesByteFallback(image_size, page_size) ==
  IF page_size = 0 THEN image_size
  ELSE ((image_size + page_size - 1) % U32) \div page_size

GetNumberOfPages(image_size, page_size) ==
  IF page_size = 0 THEN 0
  ELSE ((image_size + page_size - 1) % U32) \div page_size

-----------------------------------------------------------------------------
(* Strings *)

Min(a, b) == IF a < b THEN a ELSE b

Take(s, n) == SubSeq(s, 1, Min(n, Len(s)))

\* utils::CStr: the string up to its first NUL byte.
CStr(s) ==
  IF \E i \in 1..Len(s) : s[i] = 0
  THEN SubSeq(s, 1, (CHOOSE i \in 1..Len(s) : s[i] = 0 /\ \A j \in 1..(i - 1) : s[j] # 0) - 1)
  ELSE s

-----------------------------------------------------------------------------
(* The input stream *)

\* std::istream::read of n bytes: nothing is read from a failed stream; a read
\* that meets the end of the file takes what is left and sets eofbit | failbit.
StreamRead(s, n) ==
  IF s.fail THEN [s EXCEPT !.gcount = 0]
  ELSE IF s.pos + n <= file.len
       THEN [s EXCEPT !.pos = s.pos + n, !.gcount = n]
       ELSE [pos |-> file.len, fail |-> TRUE, eof |-> TRUE,
             gcount |-> IF file.len > s.pos THEN file.len - s.pos ELSE 0]

\* seekg(off, cur) / seekg(off): fails on a failed stream, else moves (a
\* position past the end of the file is accepted) and clears eofbit.
StreamSeekCur(s, n) ==
  IF s.fail THEN s ELSE [s EXCEPT !.pos = s.pos + n, !.eof = FALSE]

StreamSeek(s, off) ==
  IF s.fail THEN s ELSE [s EXCEPT !.pos = off, !.eof = FALSE]

\* utils::ReadU32 / utils::ReadU64: all the bytes or failure.
ReadU32(s, value) ==
  LET r == StreamRead(s, 4)
  IN [s |-> r, ok |-> ~r.fail, value |-> value]

ReadU64(s, value) ==
  LET r == StreamRead(s, 8)
  IN [s |-> r, ok |-> ~r.fail, value |-> value]

\* utils::ReadString: `raw` is the field's leading bytes (NUL padded to length).
\* A read cut short by the end of the file is kept when at least one byte came.
ReadString(s, length, raw) ==
  LET r == StreamRead(s, length)
  IN IF length = 0 THEN [s |-> s, ok |-> TRUE, value |-> << >>]
     ELSE IF r.fail
          THEN IF ~r.eof \/ r.gcount = 0
               THEN [s |-> r, ok |-> FALSE, value |-> << >>]
               ELSE [s |-> r, ok |-> TRUE, value |-> CStr(Take(raw, r.gcount))]
          ELSE [s |-> r, ok |-> TRUE, value |-> CStr(Take(raw, length))]

-----------------------------------------------------------------------------
(* OS version / patch level *)

\* std::optional<std::string>
NullOpt == [has_value |-> FALSE, value |-> ""]

Some(value) == [has_value |-> TRUE, value |-> value]

ValueOr(opt, default) == IF opt.has_value THEN opt.value ELSE default

\* The number of decimal digits of n.
RECURSIVE Digits(_)
Digits(n) == IF n < 10 THEN 1 ELSE 1 + Digits(n \div 10)

RECURSIVE Zeros(_)
Zeros(n) == IF n <= 0 THEN "" ELSE "0" \o Zeros(n - 1)

\* printf "%0<width>u": decimal, zero-padded on the left to at least width.
ZeroPadded(n, width) == Zeros(width - Digits(n)) \o ToString(n)

FormatOsVersion(os_version) ==
  IF os_version = 0 THEN NullOpt
  ELSE LET a == os_version \div 16384
           b == (os_version \div 128) % 128
           c == os_version % 128
           written == Digits(a) + 1 + Digits(b) + 1 + Digits(c)
       IN IF written > 0 /\ written < 32
          THEN Some(ToString(a) \o "." \o ToString(b) \o "." \o ToString(c))
          ELSE NullOpt

\* The month is not checked against 1..12.
FormatOsPatchLevelAnyMonth(os_patch_level) ==
  IF os_patch_level = 0 THEN NullOpt
  ELSE LET y == (os_patch_level \div 16) + 2000
           m == os_patch_level % 16
       IN Some(ZeroPadded(y, 4) \o "-" \o ZeroPadded(m, 2))

\* The month is printed without padding.
FormatOsPatchLevelUnpadded(os_patch_level) ==
  IF os_patch_level = 0 THEN NullOpt
  ELSE LET y == (os_patch_level \div 16) + 2000
           m == os_patch_level % 16
       IN IF m < 1 \/ m > 12 THEN NullOpt
          ELSE Some(ZeroPadded(y, 4) \o "-" \o ToString(m))

FormatOsPatchLevel(os_patch_level) ==
  IF os_patch_level = 0 THEN NullOpt
  ELSE LET y == (os_patch_level \div 16) + 2000
           m == os_patch_level % 16
           written == (IF Digits(y) > 4 THEN Digits(y) ELSE 4) + 1
                      + (IF Digits(m) > 2 THEN Digits(m) ELSE 2)
       IN IF m < 1 \/ m > 12 THEN NullOpt
          ELSE IF written = 7
               THEN Some(ZeroPadded(y, 4) \o "-" \o ZeroPadded(m, 2))
               ELSE NullOpt

\* version = the high 21 bits, patch = the low 11 bits.
DecodeOsVersionPatchLevel(os_version_patch_level) ==
  [os_version |-> FormatOsVersion(os_version_patch_level \div 2048),
   os_patch_level |-> FormatOsPatchLevel(os_version_patch_level % 2048)]

-----------------------------------------------------------------------------
(* Header decoding: a run of reads that stops at the first one that fails *)

Step(field, kind, n, ctx) == [field |-> field, kind |-> kind, n |-> n, ctx |-> ctx]

RunStep(s, step, f) ==
  CASE step.kind = "u32" -> ReadU32(s, f[step.field])
    [] step.kind = "u64" -> ReadU64(s, f[step.field])
    [] step.kind = "str" -> ReadString(s, step.n, f[step.field])
    [] step.kind = "skip" ->
         LET r == StreamSeekCur(s, step.n)
         IN [s |-> r, ok |-> ~r.fail, value |-> 0]

RECURSIVE RunPlan(_, _, _)
RunPlan(st, plan, f) ==
  IF plan = << >> \/ ~st.ok THEN st
  ELSE LET step == Head(plan)
           r == RunStep(st.s, step, f)
       IN RunPlan([s |-> r.s,
                   ok |-> r.ok,
                   ctx |-> IF r.ok THEN st.ctx ELSE step.ctx,
                   vals |-> IF r.ok THEN (step.field :> r.value) @@ st.vals ELSE st.vals,
                   reads |-> Append(st.reads, step.field)],
                  Tail(plan), f)

StartPlan(s) == [s |-> s, ok |-> TRUE, ctx |-> "", vals |-> << >>, reads |-> << >>]

-----------------------------------------------------------------------------
(* Boot image: header *)

BootImageInfo ==
  [kind |-> "boot", boot_magic |-> << >>, header_version |-> 0,
   kernel_size |-> 0, ramdisk_size |-> 0, page_size |-> 4096,
   os_version |-> "", os_patch_level |-> "", cmdline |-> << >>,
   kernel_load_address |-> 0, ramdisk_load_address |-> 0, second_size |-> 0,
   second_load_address |-> 0, tags_load_address |-> 0,
   product_name |-> << >>, extra_cmdline |-> << >>,
   recovery_dtbo_size |-> 0, recovery_dtbo_offset |-> 0, boot_header_size |-> 0,
   dtb_size |-> 0, dtb_load_address |-> 0,
   boot_signature_size |-> 0, image_dir |-> ""]

\* The boot magic and the nine words that follow it.
BootPrefixPlan ==
  <<Step("boot_magic", "str", MAGIC_SIZE, "boot magic")>> \o
  [i \in 1..9 |->
     Step(<<"w0", "w1", "w2", "w3", "w4", "w5", "w6", "w7", "w8">>[i],
          "u32", 4, "header information")]

\* The reads that depend on header_version, in the order the decoder makes them.
\* The reads that follow the prefix, with boot_signature_size read at every
\* header_version.
BootVersionPlanSignatureAlways(header_version) ==
  (IF header_version < 3
   THEN <<Step("os_version_patch_level", "u32", 4, "os/version patch level"),
          Step("product_name", "str", BOARDNAME_SIZE, "board name"),
          Step("cmdline", "str", CMDLINE_SIZE, "boot cmdline"),
          Step("sha", "skip", SHA_LENGTH, "SHA-1 checksum"),
          Step("extra_cmdline", "str", EXTRA_CMDLINE_SIZE, "boot extra cmdline")>>
   ELSE <<Step("cmdline", "str", EXTENDED_CMDLINE_SIZE, "boot cmdline")>>)
  \o
  (IF header_version = 1 \/ header_version = 2
   THEN <<Step("recovery_dtbo_size", "u32", 4, "recovery_dtbo_size"),
          Step("recovery_dtbo_offset", "u64", 8, "recovery_dtbo_offset"),
          Step("boot_header_size", "u32", 4, "boot_header_size")>>
   ELSE << >>)
  \o
  (IF header_version = 2
   THEN <<Step("dtb_size", "u32", 4, "dtb_size"),
          Step("dtb_load_address", "u64", 8, "dtb_load_address")>>
   ELSE << >>)
  \o
  <<Step("boot_signature_size", "u32", 4, "boot_signature_size")>>

BootVersionPlan(header_version) ==
  (IF header_version < 3
   THEN <<Step("os_version_patch_level", "u32", 4, "os/version patch level"),
          Step("product_name", "str", BOARDNAME_SIZE, "board name"),
          Step("cmdline", "str", CMDLINE_SIZE, "boot cmdline"),
          Step("sha", "skip", SHA_LENGTH, "SHA-1 checksum"),
          Step("extra_cmdline", "str", EXTRA_CMDLINE_SIZE, "boot extra cmdline")>>
   ELSE <<Step("cmdline", "str", EXTENDED_CMDLINE_SIZE, "boot cmdline")>>)
  \o
  (IF header_version = 1 \/ header_version = 2
   THEN <<Step("recovery_dtbo_size", "u32", 4, "recovery_dtbo_size"),
          Step("recovery_dtbo_offset", "u64", 8, "recovery_dtbo_offset"),
          Step("boot_header_size", "u32", 4, "boot_header_size")>>
   ELSE << >>)
  \o
  (IF header_version = 2
   THEN <<Step("dtb_size", "u32", 4, "dtb_size"),
          Step("dtb_load_address", "u64", 8, "dtb_load_address")>>
   ELSE << >>)
  \o
  (IF header_version >= 4
   THEN <<Step("boot_signature_size", "u32", 4, "boot_signature_size")>>
   ELSE << >>)

\* A field the decoder read, or the value the record was constructed with.
Field(vals, name, default) == IF name \in DOMAIN vals THEN vals[name] ELSE default

\* The record the header reads populate.
BootInfoFrom(vals) ==
  LET v == vals.w8
      legacy == v < 3
      os == DecodeOsVersionPatchLevel(IF legacy THEN vals.os_version_patch_level
                                                ELSE vals.w2)
  IN [BootImageInfo EXCEPT
        !.boot_magic = vals.boot_magic,
        !.header_version = v,
        !.page_size = IF legacy THEN vals.w7 ELSE BOOT_IMAGE_HEADER_V3_PAGESIZE,
        !.kernel_size = vals.w0,
        !.kernel_load_address = IF legacy THEN vals.w1 ELSE @,
        !.ramdisk_size = IF legacy THEN vals.w2 ELSE vals.w1,
        !.ramdisk_load_address = IF legacy THEN vals.w3 ELSE @,
        !.second_size = IF legacy THEN vals.w4 ELSE @,
        !.second_load_address = IF legacy THEN vals.w5 ELSE @,
        !.tags_load_address = IF legacy THEN vals.w6 ELSE @,
        !.os_version = ValueOr(os.os_version, ""),
        !.os_patch_level = ValueOr(os.os_patch_level, ""),
        !.product_name = Field(vals, "product_name", @),
        !.cmdline = vals.cmdline,
        !.extra_cmdline = Field(vals, "extra_cmdline", @),
        !.recovery_dtbo_size = Field(vals, "recovery_dtbo_size", @),
        !.recovery_dtbo_offset = Field(vals, "recovery_dtbo_offset", @),
        !.boot_header_size = Field(vals, "boot_header_size", @),
        !.dtb_size = Field(vals, "dtb_size", @),
        !.dtb_load_address = Field(vals, "dtb_load_address", @),
        !.boot_signature_size = Field(vals, "boot_signature_size", @)]

\* UnpackBootImage up to the end of the header reads.
BootHeader(f, s) ==
  LET p1 == RunPlan(StartPlan(s), BootPrefixPlan, f)
      p2 == IF p1.ok THEN RunPlan(p1, BootVersionPlan(p1.vals.w8), f) ELSE p1
  IN [ok |-> p2.ok, ctx |-> p2.ctx, s |-> p2.s, reads |-> p2.reads,
      info |-> IF p2.ok THEN BootInfoFrom(p2.vals) ELSE BootImageInfo]

-----------------------------------------------------------------------------
(* Boot image: region layout *)

ImageEntry(offset, size, name) == [offset |-> offset, size |-> size, name |-> name]

\* The layout with the ramdisk entry emitted whatever its size.
BootImageEntriesRamdiskAlways(i) ==
  LET page_size == i.page_size
      num_kernel_pages == GetNumberOfPages(i.kernel_size, page_size)
      num_ramdisk_pages == GetNumberOfPages(i.ramdisk_size, page_size)
      second_base == Add32(Add32(1, num_kernel_pages), num_ramdisk_pages)
  IN (IF i.kernel_size > 0
      THEN <<ImageEntry(Mul32(page_size, 1), i.kernel_size, "kernel")>>
      ELSE << >>)
     \o
     <<ImageEntry(Mul32(page_size, Add32(1, num_kernel_pages)), i.ramdisk_size, "ramdisk")>>
     \o
     (IF i.second_size > 0
      THEN <<ImageEntry(Mul32(page_size, second_base), i.second_size, "second")>>
      ELSE << >>)
     \o
     (IF i.recovery_dtbo_size > 0
      THEN <<ImageEntry(i.recovery_dtbo_offset, i.recovery_dtbo_size, "recovery_dtbo")>>
      ELSE << >>)
     \o
     (IF i.dtb_size > 0
      THEN <<ImageEntry(
               Mul32(page_size,
                     Add32(Add32(second_base,
                                 GetNumberOfPages(i.second_size, page_size)),
                           GetNumberOfPages(i.recovery_dtbo_size, page_size))),
               i.dtb_size, "dtb")>>
      ELSE << >>)
     \o
     (IF i.boot_signature_size > 0
      THEN <<ImageEntry(Mul32(page_size, second_base), i.boot_signature_size,
                        "boot_signature")>>
      ELSE << >>)

BootImageEntries(i) ==
  LET page_size == i.page_size
      num_header_pages == 1
      num_kernel_pages == GetNumberOfPages(i.kernel_size, page_size)
      num_ramdisk_pages == GetNumberOfPages(i.ramdisk_size, page_size)
      second_base == Add32(Add32(num_header_pages, num_kernel_pages), num_ramdisk_pages)
  IN (IF i.kernel_size > 0
      THEN <<ImageEntry(Mul32(page_size, num_header_pages), i.kernel_size, "kernel")>>
      ELSE << >>)
     \o
     (IF i.ramdisk_size > 0
      THEN <<ImageEntry(Mul32(page_size, Add32(num_header_pages, num_kernel_pages)),
                        i.ramdisk_size, "ramdisk")>>
      ELSE << >>)
     \o
     (IF i.second_size > 0
      THEN <<ImageEntry(Mul32(page_size, second_base), i.second_size, "second")>>
      ELSE << >>)
     \o
     (IF i.recovery_dtbo_size > 0
      THEN <<ImageEntry(i.recovery_dtbo_offset, i.recovery_dtbo_size, "recovery_dtbo")>>
      ELSE << >>)
     \o
     (IF i.dtb_size > 0
      THEN <<ImageEntry(
               Mul32(page_size,
                     Add32(Add32(second_base,
                                 GetNumberOfPages(i.second_size, page_size)),
                           GetNumberOfPages(i.recovery_dtbo_size, page_size))),
               i.dtb_size, "dtb")>>
      ELSE << >>)
     \o
     (IF i.boot_signature_size > 0
      THEN <<ImageEntry(Mul32(page_size, second_base), i.boot_signature_size,
                        "boot_signature")>>
      ELSE << >>)

-----------------------------------------------------------------------------
(* Vendor boot image: header, ramdisk table and region layout *)

VendorBootImageInfo ==
  [kind |-> "vendor", boot_magic |-> << >>, header_version |-> 0, page_size |-> 4096,
   kernel_load_address |-> 0, ramdisk_load_address |-> 0, vendor_ramdisk_size |-> 0,
   cmdline |-> << >>, tags_load_address |-> 0, product_name |-> << >>,
   header_size |-> 0, dtb_size |-> 0, dtb_load_address |-> 0,
   vendor_ramdisk_table_size |-> 0, vendor_ramdisk_table_entry_num |-> 0,
   vendor_ramdisk_table_entry_size |-> 0, vendor_bootconfig_size |-> 0,
   vendor_ramdisk_table |-> << >>, image_dir |-> ""]

VendorHeaderPlan ==
  <<Step("boot_magic", "str", MAGIC_SIZE, "header information"),
    Step("header_version", "u32", 4, "header information"),
    Step("page_size", "u32", 4, "header information"),
    Step("kernel_load_address", "u32", 4, "header information"),
    Step("ramdisk_load_address", "u32", 4, "header information"),
    Step("vendor_ramdisk_size", "u32", 4, "header information"),
    Step("cmdline", "str", VENDOR_CMDLINE_SIZE, "header information"),
    Step("tags_load_address", "u32", 4, "header information"),
    Step("product_name", "str", VENDOR_BOARDNAME_SIZE, "header information"),
    Step("header_size", "u32", 4, "header information"),
    Step("dtb_size", "u32", 4, "header information"),
    Step("dtb_load_address", "u64", 8, "header information")>>

\* The four table fields read at every header_version.
VendorTablePlanAlways(header_version) ==
  <<Step("vendor_ramdisk_table_size", "u32", 4, "ramdisk table"),
    Step("vendor_ramdisk_table_entry_num", "u32", 4, "ramdisk table"),
    Step("vendor_ramdisk_table_entry_size", "u32", 4, "ramdisk table"),
    Step("vendor_bootconfig_size", "u32", 4, "ramdisk table")>>

VendorTablePlan(header_version) ==
  IF header_version > 3
  THEN <<Step("vendor_ramdisk_table_size", "u32", 4, "ramdisk table"),
         Step("vendor_ramdisk_table_entry_num", "u32", 4, "ramdisk table"),
         Step("vendor_ramdisk_table_entry_size", "u32", 4, "ramdisk table"),
         Step("vendor_bootconfig_size", "u32", 4, "ramdisk table")>>
  ELSE << >>

VendorInfoFrom(vals) ==
  [VendorBootImageInfo EXCEPT
     !.boot_magic = vals.boot_magic,
     !.header_version = vals.header_version,
     !.page_size = vals.page_size,
     !.kernel_load_address = vals.kernel_load_address,
     !.ramdisk_load_address = vals.ramdisk_load_address,
     !.vendor_ramdisk_size = vals.vendor_ramdisk_size,
     !.cmdline = CStr(vals.cmdline),
     !.tags_load_address = vals.tags_load_address,
     !.product_name = CStr(vals.product_name),
     !.header_size = vals.header_size,
     !.dtb_size = vals.dtb_size,
     !.dtb_load_address = vals.dtb_load_address,
     !.vendor_ramdisk_table_size = Field(vals, "vendor_ramdisk_table_size", @),
     !.vendor_ramdisk_table_entry_num = Field(vals, "vendor_ramdisk_table_entry_num", @),
     !.vendor_ramdisk_table_entry_size = Field(vals, "vendor_ramdisk_table_entry_size", @),
     !.vendor_bootconfig_size = Field(vals, "vendor_bootconfig_size", @)]

\* UnpackVendorBootImage up to the end of the fixed header reads.
VendorHeader(f, s) ==
  LET p1 == RunPlan(StartPlan(s), VendorHeaderPlan, f)
      p2 == IF p1.ok THEN RunPlan(p1, VendorTablePlan(p1.vals.header_version), f) ELSE p1
  IN [ok |-> p2.ok, ctx |-> p2.ctx, s |-> p2.s, reads |-> p2.reads,
      info |-> IF p2.ok THEN VendorInfoFrom(p2.vals) ELSE VendorBootImageInfo]

VendorEntryPlan ==
  <<Step("size", "u32", 4, "ramdisk: "),
    Step("offset", "u32", 4, "ramdisk: "),
    Step("type", "u32", 4, "ramdisk: "),
    Step("name", "str", VENDOR_RAMDISK_NAME_SIZE, "ramdisk: "),
    Step("board_id0", "u32", 4, "ramdisk: "),
    Step("board_id1", "u32", 4, "ramdisk: "),
    Step("board_id2", "u32", 4, "ramdisk: "),
    Step("board_id3", "u32", 4, "ramdisk: ")>>

\* std::format("vendor_ramdisk{:02}", i)
OutputName(i) == "vendor_ramdisk" \o (IF i < 10 THEN "0" ELSE "") \o ToString(i)

RamdiskOffsetBase(i) == Mul32(i.page_size, GetNumberOfPages(i.header_size, i.page_size))

\* table_offset: the product is taken in uint32_t and then widened.
TableOffset(i) ==
  Mul32(i.page_size,
        Add32(Add32(GetNumberOfPages(i.header_size, i.page_size),
                    GetNumberOfPages(i.vendor_ramdisk_size, i.page_size)),
              GetNumberOfPages(i.dtb_size, i.page_size)))

\* entry_offset of table entry n (from 0): the 64-bit sum of table_offset and
\* the uint32_t product entry_size * n.
EntryOffset(i, n) == TableOffset(i) + Mul32(i.vendor_ramdisk_table_entry_size, n)

\* The ImageEntry a decoded table entry yields.
TableImageEntry(i, entry) ==
  ImageEntry(Add32(RamdiskOffsetBase(i), entry.offset), entry.size, entry.output_name)

\* What follows the table loop: bootconfig or the single ramdisk, then the dtb.
VendorTailEntries(i) ==
  LET page_size == i.page_size
      num_header_pages == GetNumberOfPages(i.header_size, page_size)
      ramdisk_pages == GetNumberOfPages(i.vendor_ramdisk_size, page_size)
      table_pages == GetNumberOfPages(i.vendor_ramdisk_table_size, page_size)
  IN (IF i.header_version > 3
      THEN <<ImageEntry(
               Mul32(page_size,
                     Add32(Add32(Add32(num_header_pages, ramdisk_pages),
                                 GetNumberOfPages(i.dtb_size, page_size)),
                           table_pages)),
               i.vendor_bootconfig_size, "bootconfig")>>
      ELSE <<ImageEntry(RamdiskOffsetBase(i), i.vendor_ramdisk_size, "vendor_ramdisk")>>)
     \o
     (IF i.dtb_size > 0
      THEN <<ImageEntry(Mul32(page_size, Add32(num_header_pages, ramdisk_pages)),
                        i.dtb_size, "dtb")>>
      ELSE << >>)

\* The symlink requests of a list of <<output_name, declared name>> pairs: a link
\* "ramdisk_" + name in vendor-ramdisk-by-name for each pair.
SymlinkRequests(pairs) ==
  [k \in 1..Len(pairs) |->
     [dir |-> "vendor-ramdisk-by-name", prefix |-> "ramdisk_",
      name |-> pairs[k][2], target |-> pairs[k][1]]]

-----------------------------------------------------------------------------
(* Reconstruction arguments *)

\* A std::string of the output: text written by the program followed by bytes
\* taken from the image.
Text(t) == [text |-> t, bytes |-> << >>]

Bytes(b) == [text |-> "", bytes |-> b]

\* (info.image_dir / name).string()
Path(image_dir, name) == Text(image_dir \o "/" \o name)

HexDigit(d) ==
  CASE d = 0 -> "0" [] d = 1 -> "1" [] d = 2 -> "2" [] d = 3 -> "3" [] d = 4 -> "4"
    [] d = 5 -> "5" [] d = 6 -> "6" [] d = 7 -> "7" [] d = 8 -> "8" [] d = 9 -> "9"
    [] d = 10 -> "a" [] d = 11 -> "b" [] d = 12 -> "c" [] d = 13 -> "d"
    [] d = 14 -> "e" [] d = 15 -> "f"

\* std::format("{:x}", n)
RECURSIVE ToHex(_)
ToHex(n) == IF n < 16 THEN HexDigit(n) ELSE ToHex(n \div 16) \o HexDigit(n % 16)

\* getRamdiskType with its own label for the values outside the map.
getRamdiskTypeUnknown(type) ==
  CASE type = 0 -> "none"
    [] type = 1 -> "platform"
    [] type = 2 -> "recovery"
    [] type = 3 -> "dlkm"
    [] OTHER -> "unknown"

getRamdiskType(type) ==
  CASE type = 0 -> "none"
    [] type = 1 -> "platform"
    [] type = 2 -> "recovery"
    [] type = 3 -> "dlkm"
    [] OTHER -> "none"

add_arg(list, option, value) == list \o <<Text(option), value>>

\* FormatMkbootimgArguments(const BootImageInfo &)
FormatMkbootimgArgumentsBoot(info_) ==
  LET a0 == add_arg(<< >>, "--header_version", Text(ToString(info_.header_version)))
      a1 == IF info_.os_version # ""
            THEN add_arg(a0, "--os_version", Text(info_.os_version)) ELSE a0
      a2 == IF info_.os_patch_level # ""
            THEN add_arg(a1, "--os_patch_level", Text(info_.os_patch_level)) ELSE a1
      a3 == IF info_.kernel_size > 0
            THEN add_arg(a2, "--kernel", Path(info_.image_dir, "kernel")) ELSE a2
      a4 == IF info_.ramdisk_size > 0
            THEN add_arg(a3, "--ramdisk", Path(info_.image_dir, "ramdisk")) ELSE a3
      a5 == IF info_.header_version = 2
            THEN add_arg(add_arg(a4, "--dtb", Path(info_.image_dir, "dtb")),
                         "--dtb_offset", Text(ToString(info_.dtb_load_address)))
            ELSE a4
  IN IF info_.header_version <= 2
     THEN LET b1 == IF info_.second_size > 0
                    THEN add_arg(a5, "--second", Path(info_.image_dir, "second")) ELSE a5
              b2 == IF info_.recovery_dtbo_size > 0
                    THEN add_arg(b1, "--recovery_dtbo",
                                 Path(info_.image_dir, "recovery_dtbo"))
                    ELSE b1
              b3 == add_arg(b2, "--pagesize", Text(ToString(info_.page_size)))
              b4 == add_arg(b3, "--base", Text("0x0"))
              b5 == add_arg(b4, "--kernel_offset",
                            Text("0x" \o ToHex(info_.kernel_load_address)))
              b6 == add_arg(b5, "--ramdisk_offset",
                            Text("0x" \o ToHex(info_.ramdisk_load_address)))
              b7 == IF info_.header_version = 2
                    THEN add_arg(b6, "--dtb_offset",
                                 Text("0x" \o ToHex(info_.dtb_load_address)))
                    ELSE b6
              b8 == add_arg(b7, "--board", Bytes(info_.product_name))
          IN add_arg(b8, "--cmdline", Bytes(info_.cmdline \o info_.extra_cmdline))
     ELSE add_arg(a5, "--cmdline", Bytes(info_.cmdline))

\* Every table entry rendered as the three pairs of a named fragment.
RECURSIVE TableArgumentsAllNamed(_, _, _)
TableArgumentsAllNamed(info_, k, list) ==
  IF k > Len(info_.vendor_ramdisk_table) THEN list
  ELSE LET entry == info_.vendor_ramdisk_table[k]
       IN TableArgumentsAllNamed(info_, k + 1,
            add_arg(add_arg(add_arg(list,
                                    "--ramdisk_type", Text(getRamdiskType(entry.type))),
                            "--ramdisk_name", Bytes(entry.name)),
                    "--vendor_ramdisk_fragment",
                    Path(info_.image_dir, entry.output_name)))

\* The argument pairs of the table entries from entry k on.
RECURSIVE TableArguments(_, _, _)
TableArguments(info_, k, list) ==
  IF k > Len(info_.vendor_ramdisk_table) THEN list
  ELSE LET entry == info_.vendor_ramdisk_table[k]
       IN IF entry.name = << >>
          THEN TableArguments(info_, k + 1,
                 add_arg(list, "--vendor_ramdisk", Path(info_.image_dir, entry.output_name)))
          ELSE TableArguments(info_, k + 1,
                 add_arg(add_arg(add_arg(list,
                                         "--ramdisk_type", Text(getRamdiskType(entry.type))),
                                 "--ramdisk_name", Bytes(entry.name)),
                         "--vendor_ramdisk_fragment",
                         Path(info_.image_dir, entry.output_name)))

\* FormatMkbootimgArguments(const VendorBootImageInfo &)
FormatMkbootimgArgumentsVendor(info_) ==
  LET a0 == add_arg(<< >>, "--header_version", Text(ToString(info_.header_version)))
      a1 == add_arg(a0, "--pagesize", Text("0x" \o ToHex(info_.page_size)))
      a2 == add_arg(a1, "--base", Text("0x0"))
      a3 == add_arg(a2, "--kernel_offset", Text("0x" \o ToHex(info_.kernel_load_address)))
      a4 == add_arg(a3, "--ramdisk_offset", Text("0x" \o ToHex(info_.ramdisk_load_address)))
      a5 == add_arg(a4, "--tags_offset", Text("0x" \o ToHex(info_.tags_load_address)))
      a6 == add_arg(a5, "--dtb_offset", Text("0x" \o ToHex(info_.dtb_load_address)))
      a7 == IF info_.cmdline # << >>
            THEN add_arg(a6, "--vendor_cmdline", Bytes(info_.cmdline)) ELSE a6
      a8 == IF info_.product_name # << >>
            THEN add_arg(a7, "--board", Bytes(info_.product_name)) ELSE a7
      a9 == IF info_.dtb_size > 0
            THEN add_arg(a8, "--dtb", Path(info_.image_dir, "dtb")) ELSE a8
  IN IF info_.header_version > 3
     THEN TableArguments(info_, 1,
            add_arg(a9, "--vendor_bootconfig", Path(info_.image_dir, "bootconfig")))
     ELSE add_arg(a9, "--vendor_ramdisk", Path(info_.image_dir, "vendor_ramdisk"))

\* The overload chosen by the type of the record.
FormatMkbootimgArguments(info_) ==
  IF info_.kind = "boot" THEN FormatMkbootimgArgumentsBoot(info_)
  ELSE FormatMkbootimgArgumentsVendor(info_)

\* PrintMkbootimgArgs: what reaches standard output, argument by argument.
PrintMkbootimgArgs(cmd_args, null_separator) ==
  [k \in 1..Len(cmd_args) |->
     [arg |-> cmd_args[k],
      quoted |-> ~null_separator /\ (\E j \in 1..Len(cmd_args[k].bytes) :
                                       cmd_args[k].bytes[j] = 32),
      separator |-> IF null_separator THEN "NUL"
                    ELSE IF k < Len(cmd_args) THEN " " ELSE "endl"]]

-----------------------------------------------------------------------------
(* Pretty text *)

\* What is inserted into a std::ostringstream with <<: a string, a number, or
\* one of the manipulators std::hex and std::dec.
StreamItem(kind, piece, number) == [kind |-> kind, piece |-> piece, number |-> number]

\* A string literal, or a std::string the program built.
Lit(t) == StreamItem("string", Text(t), 0)

\* A std::string read from the image.
Str(b) == StreamItem("string", Bytes(b), 0)

Num(n) == StreamItem("number", Text(""), n)

std_hex == StreamItem("hex", Text(""), 0)

std_dec == StreamItem("dec", Text(""), 0)

\* The number base of a std::ostringstream when items[k] is inserted: decimal
\* until a manipulator changes it, and a manipulator holds until the next one.
BaseAt(items, k) ==
  LET set == {j \in 1..(k - 1) : items[j].kind \in {"hex", "dec"}}
  IN IF set = {} THEN "dec"
     ELSE items[CHOOSE j \in set : \A other \in set : other <= j].kind

IsWritten(item) == item.kind \in {"string", "number"}

\* std::ostringstream oss; oss << items[1] << items[2] << ...; oss.str(), as the
\* pieces written: a number in the base the stream is in, a string as it is.
Insert(items) ==
  LET shown == [k \in 1..Len(items) |->
                  IF items[k].kind = "number"
                  THEN [items[k] EXCEPT
                          !.piece = Text(IF BaseAt(items, k) = "hex"
                                         THEN ToHex(items[k].number)
                                         ELSE ToString(items[k].number))]
                  ELSE items[k]]
      kept == SelectSeq(shown, IsWritten)
  IN [k \in 1..Len(kept) |-> kept[k].piece]

\* FormatPrettyText(const BootImageInfo &): the pieces of oss.str() in order.
FormatPrettyTextBoot(info_) ==
  LET v == info_.header_version
      i1 == <<Lit("boot magic: "), Str(info_.boot_magic), Lit("\n")>>
      i2 == IF v < 3
            THEN <<Lit("kernel_size: "), Num(info_.kernel_size), Lit("\n"),
                   Lit("kernel load address: 0x"), std_hex,
                   Num(info_.kernel_load_address), Lit("\n"),
                   Lit("ramdisk size: "), std_dec, Num(info_.ramdisk_size), Lit("\n"),
                   Lit("ramdisk load address: 0x"), std_hex,
                   Num(info_.ramdisk_load_address), Lit("\n"),
                   Lit("second bootloader size: "), std_dec, Num(info_.second_size),
                   Lit("\n"),
                   Lit("second bootloader load address: 0x"), std_hex,
                   Num(info_.second_load_address), Lit("\n"),
                   Lit("kernel tags load address: 0x"), Num(info_.tags_load_address),
                   Lit("\n")>>
            ELSE << >>
      i3 == <<Lit("page size: "), std_dec, Num(info_.page_size), Lit("\n"),
              Lit("os version: "), Lit(info_.os_version), Lit("\n"),
              Lit("os patch level: "), Lit(info_.os_patch_level), Lit("\n"),
              Lit("boot image header version: "), Num(info_.header_version), Lit("\n")>>
      i4 == IF v < 3
            THEN <<Lit("product name: "), Str(info_.product_name), Lit("\n")>>
            ELSE << >>
      i5 == <<Lit("command line args: "), Str(info_.cmdline), Lit("\n")>>
      i6 == IF v < 3
            THEN <<Lit("additional command line args: "), Str(info_.extra_cmdline),
                   Lit("\n")>>
            ELSE << >>
      i7 == IF v = 1 \/ v = 2
            THEN <<Lit("recovery dtbo size: "), Num(info_.recovery_dtbo_size), Lit("\n"),
                   Lit("recovery dtbo offset: 0x"), std_hex,
                   Num(info_.recovery_dtbo_offset), Lit("\n"),
                   Lit("boot header size: "), std_dec, Num(info_.boot_header_size),
                   Lit("\n")>>
            ELSE << >>
      i8 == IF v = 2
            THEN <<Lit("dtb size: "), Num(info_.dtb_size), Lit("\n"),
                   Lit("dtb address: 0x"), std_hex, Num(info_.dtb_load_address),
                   Lit("\n")>>
            ELSE << >>
      i9 == IF v >= 4
            THEN <<Lit("boot.img signature size: "), std_dec,
                   Num(info_.boot_signature_size), Lit("\n")>>
            ELSE << >>
  IN Insert(i1 \o i2 \o i3 \o i4 \o i5 \o i6 \o i7 \o i8 \o i9)

\* The inner loop over j of one board_id row that starts at i.
RECURSIVE BoardIdRow(_, _, _)
BoardIdRow(board_id, i, j) ==
  IF j < 4 /\ i + j < Len(board_id)
  THEN <<std_hex, Lit("0x"), Num(board_id[i + j + 1]), Lit(", ")>>
       \o BoardIdRow(board_id, i, j + 1)
  ELSE << >>

\* The loop over i, four words a row.
RECURSIVE BoardIdRows(_, _)
BoardIdRows(board_id, i) ==
  IF i < Len(board_id)
  THEN <<Lit("            ")>> \o BoardIdRow(board_id, i, 0) \o <<Lit("\n")>>
       \o BoardIdRows(board_id, i + 4)
  ELSE << >>

\* The loop over info.vendor_ramdisk_table from entry k on.
RECURSIVE TableItems(_, _)
TableItems(table, k) ==
  IF k > Len(table) THEN << >>
  ELSE LET entry == table[k]
       IN <<std_dec, Lit("    "), Lit(entry.output_name), Lit(": {\n"),
            Lit("        size: "), Num(entry.size), Lit("\n"),
            Lit("        offset: "), Num(entry.offset), Lit("\n"),
            Lit("        type: "), std_hex, Lit(getRamdiskType(entry.type)), Lit("\n"),
            Lit("        name: "), Str(entry.name), Lit("\n"),
            Lit("        board_id: [\n")>>
          \o BoardIdRows(entry.board_id, 0)
          \o <<Lit("        ]\n    }\n")>>
          \o TableItems(table, k + 1)

\* FormatPrettyText(const VendorBootImageInfo &): the pieces of oss.str() in order.
FormatPrettyTextVendor(info_) ==
  LET v == info_.header_version
      i1 == <<Lit("boot magic: "), Str(info_.boot_magic), Lit("\n"),
              Lit("vendor boot image header version: "), Num(info_.header_version),
              Lit("\n"),
              Lit("page size: "), Num(info_.page_size), Lit("\n"),
              Lit("kernel load address: 0x"), std_hex, Num(info_.kernel_load_address),
              Lit("\n"),
              Lit("ramdisk load address: 0x"), Num(info_.ramdisk_load_address),
              Lit("\n")>>
      i2 == IF v > 3
            THEN <<Lit("vendor ramdisk total size: "), std_dec,
                   Num(info_.vendor_ramdisk_size), Lit("\n")>>
            ELSE <<Lit("vendor ramdisk size: "), std_dec,
                   Num(info_.vendor_ramdisk_size), Lit("\n")>>
      i3 == <<Lit("vendor command line args: "), Str(info_.cmdline), Lit("\n"),
              Lit("kernel tags load address: 0x"), std_hex,
              Num(info_.tags_load_address), Lit("\n"),
              Lit("product name: "), Str(info_.product_name), Lit("\n"),
              Lit("vendor boot image header size: "), std_dec, Num(info_.header_size),
              Lit("\n"),
              Lit("dtb size: "), Num(info_.dtb_size), Lit("\n"),
              Lit("dtb address: 0x"), std_hex, Num(info_.dtb_load_address), Lit("\n")>>
      i4 == IF v > 3
            THEN <<Lit("vendor ramdisk table size: "), std_dec,
                   Num(info_.vendor_ramdisk_table_size), Lit("\n"),
                   Lit("vendor ramdisk table:\n[\n")>>
                 \o TableItems(info_.vendor_ramdisk_table, 1)
                 \o <<Lit("]\n"),
                      Lit("vendor bootconfig size: "), std_dec,
                      Num(info_.vendor_bootconfig_size), Lit("\n")>>
            ELSE << >>
  IN Insert(i1 \o i2 \o i3 \o i4)

\* The overload chosen by the type of the record.
FormatPrettyText(info_) ==
  IF info_.kind = "boot" THEN FormatPrettyTextBoot(info_)
  ELSE FormatPrettyTextVendor(info_)

-----------------------------------------------------------------------------
(* Extraction *)

kChunkSize == 65536

\* The copy loop of utils::ExtractImage: chunks are read and written until one
\* read falls short.
RECURSIVE CopyChunks(_, _, _)
CopyChunks(s, remaining, written) ==
  IF remaining = 0 THEN [ok |-> TRUE, s |-> s, written |-> written]
  ELSE LET bytes_to_read == Min(remaining, kChunkSize)
           r == StreamRead(s, bytes_to_read)
       IN IF r.fail THEN [ok |-> FALSE, s |-> r, written |-> written]
          ELSE CopyChunks(r, remaining - bytes_to_read, written + bytes_to_read)

\* utils::ExtractImage with an entry of size 0 left out: success, no file.
ExtractImageSkipEmpty(s, offset, size, open_ok) ==
  IF size = 0
  THEN [ok |-> TRUE, s |-> s, created |-> FALSE, written |-> 0]
  ELSE LET sk == StreamSeek(s, offset)
           c == CopyChunks(sk, size, 0)
       IN IF sk.fail \/ ~open_ok
          THEN [ok |-> FALSE, s |-> sk, created |-> FALSE, written |-> 0]
          ELSE [ok |-> c.ok, s |-> c.s, created |-> TRUE, written |-> c.written]

\* utils::ExtractImage; open_ok says whether the output file can be opened.
ExtractImage(s, offset, size, open_ok) ==
  IF size = 0
  THEN [ok |-> open_ok, s |-> s, created |-> open_ok, written |-> 0]
  ELSE LET sk == StreamSeek(s, offset)
           c == CopyChunks(sk, size, 0)
       IN IF sk.fail \/ ~open_ok
          THEN [ok |-> FALSE, s |-> sk, created |-> FALSE, written |-> 0]
          ELSE [ok |-> c.ok, s |-> c.s, created |-> TRUE, written |-> c.written]

EmptyFs == [dirs |-> {}, files |-> {}, links |-> << >>]

\* The filesystem after `name` was opened for writing (truncated) and filled.
WriteFile(f, name, size) ==
  [f EXCEPT !.files = {x \in @ : x.name # name} \cup {[name |-> name, size |-> size]}]

-----------------------------------------------------------------------------
(* Input images *)

BigLen == 4 * U32

\* Total of the bytes the steps of a plan ask for.
RECURSIVE PlanBytes(_)
PlanBytes(plan) == IF plan = << >> THEN 0 ELSE Head(plan).n + PlanBytes(Tail(plan))

BootHeaderBytes(header_version) ==
  PlanBytes(BootPrefixPlan \o BootVersionPlan(header_version))

\* Lengths that cut a file at the start of a field of the plan or one byte into it.
CutPoints(plan) ==
  UNION {{PlanBytes(SubSeq(plan, 1, i - 1)), PlanBytes(SubSeq(plan, 1, i - 1)) + 1}
         : i \in 1..Len(plan)}

OTHER_MAGIC == <<65, 78, 68, 82, 79, 73, 68, 63>>  \* "ANDROID?"

\* A boot image file, given by what the boot decoder finds in it. In a file of
\* header_version >= 3 the words 3..7 are unused; they, and every field a
\* version does not carry, hold non-zero bytes.
BootFile(magic, v, k, r, sec, ps, rds, rdo, ds, sig, os, cmd, len) ==
  [fmt |-> "boot", len |-> len, boot_magic |-> magic,
   w0 |-> k,
   w1 |-> IF v < 3 THEN 32768 ELSE r,
   w2 |-> IF v < 3 THEN r ELSE os,
   w3 |-> IF v < 3 THEN 16777216 ELSE 7,
   w4 |-> IF v < 3 THEN sec ELSE 7,
   w5 |-> IF v < 3 THEN 15728640 ELSE 7,
   w6 |-> IF v < 3 THEN 256 ELSE 7,
   w7 |-> IF v < 3 THEN ps ELSE 7,
   w8 |-> v,
   os_version_patch_level |-> os,
   product_name |-> <<98, 111, 0, 120>>,
   cmdline |-> cmd,
   extra_cmdline |-> <<101>>,
   recovery_dtbo_size |-> rds, recovery_dtbo_offset |-> rdo, boot_header_size |-> 1660,
   dtb_size |-> ds, dtb_load_address |-> 17825792,
   boot_signature_size |-> sig]

BootVersions == 0..5
KernelSizes == {0, 4096, U32 - 4096}
RamdiskSizes == {0, 1, 8192}
PageSizes == {0, 2048, 4096}
DtboOffsets == {12288, U32 + 5}
OsPatchLevels == {0, 335544659}   \* absent; 10.0.0 with 2021-03

\* Parameters of the complete files: a field a version does not carry is
\* pinned to one non-zero value.
BootParams ==
  {p \in [v : BootVersions, k : KernelSizes, r : RamdiskSizes, sec : {0, 1},
          ps : PageSizes, rds : {0, 4096}, rdo : DtboOffsets, ds : {0, 1},
          sig : {0, 1}] :
     /\ p.v >= 3 => p.sec = 1 /\ p.ps = 2048
     /\ p.v \notin {1, 2} => p.rds = 4096 /\ p.rdo = 12288
     /\ p.v # 2 => p.ds = 1
     /\ p.v < 4 => p.sig = 1}

BootCompleteFiles ==
  {BootFile(BOOT_MAGIC, p.v, p.k, p.r, p.sec, p.ps, p.rds, p.rdo, p.ds, p.sig,
            335544659, <<97, 61, 98>>, len) :
     p \in BootParams, len \in {BigLen}}

\* Files that end inside the header (or right after it), with and without
\* sub-images declared.
BootCutFiles ==
  UNION {{BootFile(BOOT_MAGIC, v, k, k, 0, 4096, 0, 12288, 0, 0, os, <<97, 61, 98>>, len) :
            len \in CutPoints(BootPrefixPlan \o BootVersionPlan(v))
                    \cup {BootHeaderBytes(v) - 20, BootHeaderBytes(v)},
            k \in {0, 4096}, os \in OsPatchLevels}
         : v \in BootVersions}

\* Files that do not start with the boot magic.
BootOtherMagicFiles ==
  {BootFile(m, v, 4096, 8192, 0, 4096, 0, 12288, 0, 1, 0, << >>, BigLen) :
     m \in {VENDOR_BOOT_MAGIC, OTHER_MAGIC, <<65, 78, 68>>}, v \in {0, 3, 4}}

\* A packed os_version_patch_level: version a.b.c in bits 11-31, year y (from
\* 2000) and month m in bits 0-10.
Pack(a, b, c, y, m) == a * 33554432 + b * 262144 + c * 2048 + y * 16 + m

PackedValues ==
  {Pack(a, b, c, y, m) : a \in {0, 10, 63}, b \in {0, 127}, c \in {0, 1, 127},
                         y \in {0, 21, 127}, m \in {0, 3, 12, 13, 14, 15}}

\* Complete headers without sub-images over the packed OS values, and with an
\* empty command line.
BootOsFiles ==
  {BootFile(BOOT_MAGIC, v, 0, 0, 0, 4096, 0, 12288, 0, 0, os, <<97, 61, 98>>,
            BootHeaderBytes(v)) : v \in {0, 3}, os \in PackedValues}
  \cup
  {BootFile(BOOT_MAGIC, v, 0, 0, 0, 4096, 0, 12288, 0, 0, os, << >>,
            BootHeaderBytes(v)) : v \in {0, 3}, os \in OsPatchLevels}

BootFiles == BootCompleteFiles \cup BootCutFiles \cup BootOtherMagicFiles \cup BootOsFiles

\* A ramdisk table entry as the bytes the decoder finds at the offset it seeks to.
TableEntry(size, offset, type, name) ==
  [size |-> size, offset |-> offset, type |-> type, name |-> name,
   board_id0 |-> 0, board_id1 |-> 5, board_id2 |-> 0, board_id3 |-> 0]

\* A vendor boot image file, given by what the vendor-boot decoder finds in it.
\* The table fields of a file of header_version <= 3 hold non-zero bytes.
VendorFile(magic, v, ps, hs, vrs, ds, ts, es, bcs, entries, cmd, len) ==
  [fmt |-> "vendor", len |-> len, boot_magic |-> magic,
   header_version |-> v, page_size |-> ps,
   kernel_load_address |-> 32768, ramdisk_load_address |-> 16777216,
   vendor_ramdisk_size |-> vrs, cmdline |-> cmd, tags_load_address |-> 256,
   product_name |-> <<98, 111>>, header_size |-> hs, dtb_size |-> ds,
   dtb_load_address |-> 17825792,
   vendor_ramdisk_table_size |-> ts,
   vendor_ramdisk_table_entry_num |-> Len(entries),
   vendor_ramdisk_table_entry_size |-> es,
   vendor_bootconfig_size |-> bcs,
   entries |-> entries]

VendorEntries ==
  {TableEntry(0, 0, 0, << >>),
   TableEntry(1, 4096, 1, <<97>>),
   TableEntry(4096, U32 - 1, 9, <<97>>)}

\* The sequences over S of length 0..n.
SeqsUpTo(S, n) == UNION {[1..k -> S] : k \in 0..n}

VendorHeaderBytes(header_version) ==
  PlanBytes(VendorHeaderPlan \o VendorTablePlan(header_version))

VendorParams ==
  {p \in [v : {3, 4}, ps : {0, 4096}, hs : {2128, U32 - 1},
          vrs : {0, 4096, U32 - 4096}, ds : {0, 1}, ts : {0, 120}, bcs : {0, 1},
          entries : SeqsUpTo(VendorEntries, MaxEntries)] :
     p.v <= 3 => p.ts = 120 /\ p.bcs = 1 /\ p.entries = <<TableEntry(1, 4096, 1, <<97>>)>>}

VendorCompleteFiles ==
  {VendorFile(VENDOR_BOOT_MAGIC, p.v, p.ps, p.hs, p.vrs, p.ds, p.ts, 60, p.bcs,
              p.entries, <<97, 61, 98>>, BigLen) : p \in VendorParams}

\* Files that end inside the header or inside the ramdisk table (which a file
\* of header_size 2128, page_size 4096 and vendor_ramdisk_size 4096 holds at 8192).
VendorCutFiles ==
  UNION {{VendorFile(VENDOR_BOOT_MAGIC, v, 4096, 2128, 4096, 0, 120, 60, 0,
                     <<TableEntry(1, 0, 1, <<97>>), TableEntry(0, 0, 0, << >>)>>,
                     <<97, 61, 98>>, len) :
            len \in CutPoints(VendorHeaderPlan \o VendorTablePlan(v))
                    \cup {VendorHeaderBytes(v)}
                    \cup {8192 + c : c \in CutPoints(VendorEntryPlan)}
                    \cup {8192 + 60 + c : c \in CutPoints(VendorEntryPlan)}}
         : v \in {3, 4}}

VendorOtherMagicFiles ==
  {VendorFile(m, v, 4096, 2128, 4096, 0, 120, 60, 0, << >>, << >>, BigLen) :
     m \in {BOOT_MAGIC, OTHER_MAGIC}, v \in {3, 4}}

\* Files that end right after the header (header_version 3) or after the
\* ramdisk table at 4096 (header_version 4), with every region of size 0: the
\* regions the layout places lie beyond the end of the file.
VendorShortFiles ==
  {VendorFile(VENDOR_BOOT_MAGIC, 3, 4096, 2128, 0, 0, 120, 60, 1,
              <<TableEntry(1, 4096, 1, <<97>>)>>, <<97, 61, 98>>, VendorHeaderBytes(3)),
   VendorFile(VENDOR_BOOT_MAGIC, 4, 4096, 2128, 0, 0, 120, 60, 0,
              <<TableEntry(0, U32 - 1, 2, <<97>>), TableEntry(0, 4096, 3, <<98>>)>>,
              <<97, 61, 98>>, 4096 + 120)}

VendorFiles ==
  VendorCompleteFiles \cup VendorCutFiles \cup VendorOtherMagicFiles \cup VendorShortFiles

Files == BootFiles \cup VendorFiles

\* The 8 bytes main compares: the magic field NUL padded.
MagicBytes(f) == [i \in 1..MAGIC_SIZE |-> IF i <= Len(f.boot_magic) THEN f.boot_magic[i] ELSE 0]

-----------------------------------------------------------------------------
(* The program *)

\* The command lines main accepts: --format info | mkbootimg, the NUL separator
\* being of use with mkbootimg only.
ProgramArgs ==
  {a \in [format : {"info", "mkbootimg"}, null_separator : BOOLEAN] :
     a.null_separator => a.format = "mkbootimg"}

NoOutput == [renderer |-> "none", written |-> << >>]

Init ==
  \E f \in Files, c \in {"main", "api"}, a \in ProgramArgs :
    /\ c = "main" => /\ MagicBytes(f) = BOOT_MAGIC => f.fmt = "boot"
                     /\ MagicBytes(f) = VENDOR_BOOT_MAGIC => f.fmt = "vendor"
    /\ c = "api" => a = [format |-> "info", null_separator |-> FALSE]
    /\ file = f
    /\ caller = c
    /\ args = a
    /\ cout = NoOutput
    /\ decoder = IF c = "api" THEN f.fmt ELSE "none"
    /\ pc = IF c = "main" THEN "main" ELSE IF f.fmt = "boot" THEN "boot_header"
                                           ELSE "vendor_header"
    /\ stream = [pos |-> 0, fail |-> FALSE, eof |-> FALSE, gcount |-> 0]
    /\ info = NoRecord
    /\ reads = << >>
    /\ image_entries = << >>
    /\ symlinks = << >>
    /\ entry_offsets = << >>
    /\ next_entry = 1
    /\ fs = EmptyFs
    /\ err = NoError
    /\ returned = NoRecord
    /\ exit_status = "running"

\* An exception leaves the decoder; main catches it and exits with a failure.
ThrowNamed(type, context, name) ==
  /\ err' = [type |-> type, context |-> context, name |-> name]
  /\ pc' = IF caller = "main" THEN "exited" ELSE "thrown"
  /\ exit_status' = IF caller = "main" THEN "EXIT_FAILURE" ELSE exit_status

Throw(type, context) == ThrowNamed(type, context, << >>)

\* The magic compared on its first three bytes only.
SelectDecoderByPrefix(magic) ==
  IF SubSeq(magic, 1, 3) = SubSeq(BOOT_MAGIC, 1, 3) THEN "boot"
  ELSE IF SubSeq(magic, 1, 3) = SubSeq(VENDOR_BOOT_MAGIC, 1, 3) THEN "vendor"
  ELSE "none"

\* main: the decoder the 8 bytes read select, "none" for an invalid magic.
SelectDecoder(magic) ==
  IF magic = BOOT_MAGIC THEN "boot"
  ELSE IF magic = VENDOR_BOOT_MAGIC THEN "vendor"
  ELSE "none"

\* main: read the 8 magic bytes, rewind, select the decoder.
MainReadMagic ==
  /\ pc = "main"
  /\ LET r == StreamRead(stream, MAGIC_SIZE)
         selected == SelectDecoder(MagicBytes(file))
     IN IF r.fail
        THEN /\ stream' = r
             /\ Throw("runtime_error", "Failed to read magic from boot image")
             /\ UNCHANGED decoder
        ELSE /\ stream' = StreamSeek(r, 0)
             /\ IF selected = "boot"
                THEN /\ decoder' = "boot"
                     /\ pc' = "boot_header"
                     /\ UNCHANGED <<err, exit_status>>
                ELSE IF selected = "vendor"
                THEN /\ decoder' = "vendor"
                     /\ pc' = "vendor_header"
                     /\ UNCHANGED <<err, exit_status>>
                ELSE /\ Throw("runtime_error", "Invalid boot image magic")
                     /\ UNCHANGED decoder
  /\ UNCHANGED <<file, caller, args, cout, info, reads, image_entries, symlinks,
                 entry_offsets, next_entry, fs, returned>>

\* UnpackBootImage: the header reads and the layout computed from them.
UnpackBootImageHeader ==
  /\ pc = "boot_header"
  /\ LET h == BootHeader(file, stream)
     IN /\ stream' = h.s
        /\ reads' = h.reads
        /\ IF h.ok
           THEN /\ info' = h.info
                /\ image_entries' = BootImageEntries(h.info)
                /\ pc' = "boot_create_dir"
                /\ UNCHANGED <<err, exit_status>>
           ELSE /\ Throw("FileReadError", h.ctx)
                /\ UNCHANGED <<info, image_entries>>
  /\ UNCHANGED <<file, caller, args, cout, decoder, symlinks, entry_offsets, next_entry, fs, returned>>

\* UnpackBootImage: utils::CreateDirectory(output_dir).
UnpackBootImageCreateDirectory ==
  /\ pc = "boot_create_dir"
  /\ \E created \in BOOLEAN :
       IF created
       THEN /\ fs' = [fs EXCEPT !.dirs = @ \cup {"output_dir"}]
            /\ pc' = "boot_extract"
            /\ UNCHANGED <<err, exit_status>>
       ELSE /\ Throw("runtime_error", "Could not create output directory.")
            /\ UNCHANGED fs
  /\ UNCHANGED <<file, caller, args, cout, decoder, stream, info, reads, image_entries, symlinks,
                 entry_offsets, next_entry, returned>>

\* UnpackBootImage: one turn of the extraction loop.
UnpackBootImageExtract ==
  /\ pc = "boot_extract"
  /\ next_entry <= Len(image_entries)
  /\ \E open_ok \in BOOLEAN :
       LET entry == image_entries[next_entry]
           x == ExtractImage(stream, entry.offset, entry.size, open_ok)
       IN /\ stream' = x.s
          /\ fs' = IF x.created THEN WriteFile(fs, entry.name, x.written) ELSE fs
          /\ IF x.ok
             THEN /\ next_entry' = next_entry + 1
                  /\ UNCHANGED <<pc, err, exit_status>>
             ELSE /\ Throw("runtime_error", "Could not extract image")
                  /\ UNCHANGED next_entry
  /\ UNCHANGED <<file, caller, args, cout, decoder, info, reads, image_entries, symlinks,
                 entry_offsets, returned>>

\* UnpackBootImage: the loop is over; the record is returned.
UnpackBootImageReturn ==
  /\ pc = "boot_extract"
  /\ next_entry > Len(image_entries)
  /\ info' = [info EXCEPT !.image_dir = "output_dir"]
  /\ returned' = info'
  /\ pc' = IF caller = "main" THEN "main_format" ELSE "done"
  /\ UNCHANGED <<file, caller, args, cout, decoder, stream, reads, image_entries, symlinks,
                 entry_offsets, next_entry, fs, err, exit_status>>

\* UnpackVendorBootImage with the output directory created before the header
\* is read.
UnpackVendorBootImageHeaderAfterDirectory ==
  /\ pc = "vendor_header"
  /\ fs' = [fs EXCEPT !.dirs = @ \cup {"output_dir"}]
  /\ LET h == VendorHeader(file, stream)
     IN /\ stream' = h.s
        /\ reads' = h.reads
        /\ IF h.ok
           THEN /\ info' = h.info
                /\ pc' = "vendor_table"
                /\ UNCHANGED <<err, exit_status>>
           ELSE /\ Throw("FileReadError", h.ctx)
                /\ UNCHANGED info
  /\ UNCHANGED <<file, caller, args, cout, decoder, image_entries, symlinks, entry_offsets,
                 next_entry, returned>>

\* UnpackVendorBootImage: the fixed header reads.
UnpackVendorBootImageHeader ==
  /\ pc = "vendor_header"
  /\ LET h == VendorHeader(file, stream)
     IN /\ stream' = h.s
        /\ reads' = h.reads
        /\ IF h.ok
           THEN /\ info' = h.info
                /\ pc' = "vendor_table"
                /\ UNCHANGED <<err, exit_status>>
           ELSE /\ Throw("FileReadError", h.ctx)
                /\ UNCHANGED info
  /\ UNCHANGED <<file, caller, args, cout, decoder, image_entries, symlinks, entry_offsets,
                 next_entry, fs, returned>>

\* UnpackVendorBootImage: one turn of the ramdisk table loop (header_version > 3):
\* seek to the entry, read it, record its image entry and its symlink pair.
UnpackVendorBootImageTableEntry ==
  /\ pc = "vendor_table"
  /\ info.header_version > 3
  /\ Len(info.vendor_ramdisk_table) < info.vendor_ramdisk_table_entry_num
  /\ LET n == Len(info.vendor_ramdisk_table)
         entry_offset == EntryOffset(info, n)
         p == RunPlan(StartPlan(StreamSeek(stream, entry_offset)), VendorEntryPlan,
                      file.entries[n + 1])
         entry == [output_name |-> OutputName(n),
                   size |-> p.vals.size, offset |-> p.vals.offset,
                   type |-> p.vals.type, name |-> CStr(p.vals.name),
                   board_id |-> <<p.vals.board_id0, p.vals.board_id1,
                                  p.vals.board_id2, p.vals.board_id3>>]
     IN /\ stream' = p.s
        /\ entry_offsets' = Append(entry_offsets, entry_offset)
        /\ reads' = reads \o p.reads
        /\ IF p.ok
           THEN /\ image_entries' = Append(image_entries, TableImageEntry(info, entry))
                /\ symlinks' = Append(symlinks, <<entry.output_name, entry.name>>)
                /\ info' = [info EXCEPT !.vendor_ramdisk_table = Append(@, entry)]
                /\ UNCHANGED <<pc, err, exit_status>>
           ELSE /\ ThrowNamed("FileReadError", "ramdisk: ", Field(p.vals, "name", << >>))
                /\ UNCHANGED <<image_entries, symlinks, info>>
  /\ UNCHANGED <<file, caller, args, cout, decoder, next_entry, fs, returned>>

\* UnpackVendorBootImage: after the table loop (or without one), the bootconfig
\* or single ramdisk entry and the dtb entry.
UnpackVendorBootImageLayout ==
  /\ pc = "vendor_table"
  /\ info.header_version > 3 =>
       Len(info.vendor_ramdisk_table) >= info.vendor_ramdisk_table_entry_num
  /\ image_entries' = image_entries \o VendorTailEntries(info)
  /\ pc' = "vendor_create_dir"
  /\ UNCHANGED <<file, caller, args, cout, decoder, stream, info, reads, symlinks, entry_offsets,
                 next_entry, fs, err, returned, exit_status>>

\* UnpackVendorBootImage: utils::CreateDirectory(output_dir).
UnpackVendorBootImageCreateDirectory ==
  /\ pc = "vendor_create_dir"
  /\ \E created \in BOOLEAN :
       IF created
       THEN /\ fs' = [fs EXCEPT !.dirs = @ \cup {"output_dir"}]
            /\ pc' = "vendor_extract"
            /\ UNCHANGED <<err, exit_status>>
       ELSE /\ Throw("runtime_error", "Could not create output directory.")
            /\ UNCHANGED fs
  /\ UNCHANGED <<file, caller, args, cout, decoder, stream, info, reads, image_entries, symlinks,
                 entry_offsets, next_entry, returned>>

\* UnpackVendorBootImage: one turn of the extraction loop.
UnpackVendorBootImageExtract ==
  /\ pc = "vendor_extract"
  /\ next_entry <= Len(image_entries)
  /\ \E open_ok \in BOOLEAN :
       LET entry == image_entries[next_entry]
           x == ExtractImage(stream, entry.offset, entry.size, open_ok)
       IN /\ stream' = x.s
          /\ fs' = IF x.created THEN WriteFile(fs, entry.name, x.written) ELSE fs
          /\ IF x.ok
             THEN /\ next_entry' = next_entry + 1
                  /\ UNCHANGED <<pc, err, exit_status>>
             ELSE /\ Throw("runtime_error", "Could not extract image")
                  /\ UNCHANGED next_entry
  /\ UNCHANGED <<file, caller, args, cout, decoder, info, reads, image_entries, symlinks,
                 entry_offsets, returned>>

\* UnpackVendorBootImage: after the extraction loop, the symlink directory and
\* one link per recorded pair (errors of the links themselves are ignored), and
\* the record is returned.
UnpackVendorBootImageSymlinksReturn ==
  /\ pc = "vendor_extract"
  /\ next_entry > Len(image_entries)
  /\ \E created \in BOOLEAN :
       IF info.header_version > 3 /\ symlinks # << >> /\ ~created
       THEN /\ Throw("runtime_error", "Could not create symlink directory.")
            /\ UNCHANGED <<fs, info, returned>>
       ELSE /\ fs' = IF info.header_version > 3 /\ symlinks # << >>
                     THEN [fs EXCEPT !.dirs = @ \cup {"vendor-ramdisk-by-name"},
                                     !.links = @ \o SymlinkRequests(symlinks)]
                     ELSE fs
            /\ info' = [info EXCEPT !.image_dir = "output_dir"]
            /\ returned' = info'
            /\ pc' = IF caller = "main" THEN "main_format" ELSE "done"
            /\ UNCHANGED <<err, exit_status>>
  /\ UNCHANGED <<file, caller, args, cout, decoder, stream, reads, image_entries, symlinks,
                 entry_offsets, next_entry>>

\* main: the record is rendered to standard output and the program exits.
MainFormat ==
  /\ pc = "main_format"
  /\ cout' = IF args.format = "info"
             THEN [renderer |-> "FormatPrettyText", written |-> FormatPrettyText(returned)]
             ELSE [renderer |-> "FormatMkbootimgArguments",
                   written |-> PrintMkbootimgArgs(FormatMkbootimgArguments(returned),
                                                  args.null_separator)]
  /\ exit_status' = "EXIT_SUCCESS"
  /\ pc' = "exited"
  /\ UNCHANGED <<file, caller, args, decoder, stream, info, reads, image_entries, symlinks,
                 entry_offsets, next_entry, fs, err, returned>>

Next ==
  \/ MainReadMagic
  \/ UnpackBootImageHeader
  \/ UnpackBootImageCreateDirectory
  \/ UnpackBootImageExtract
  \/ UnpackBootImageReturn
  \/ UnpackVendorBootImageHeader
  \/ UnpackVendorBootImageTableEntry
  \/ UnpackVendorBootImageLayout
  \/ UnpackVendorBootImageCreateDirectory
  \/ UnpackVendorBootImageExtract
  \/ UnpackVendorBootImageSymlinksReturn
  \/ MainFormat

Spec == Init /\ [][Next]_vars

-----------------------------------------------------------------------------
(* Properties *)

\* ceil(x / page_size) as a number, 0 when page_size is 0.
Pages(x, page_size) == IF page_size = 0 THEN 0 ELSE (x + page_size - 1) \div page_size

\* The image entries of a given name.
EntriesNamed(name) == {k \in 1..Len(image_entries) : image_entries[k].name = name}

\* The boot header was decoded and the layout derived from it.
BootDecoded == decoder = "boot" /\ info.kind = "boot"

\* The vendor-boot header was decoded.
VendorDecoded == decoder = "vendor" /\ info.kind = "vendor"

\* The vendor-boot layout is complete.
VendorLaidOut ==
  VendorDecoded /\ pc \in {"vendor_create_dir", "vendor_extract", "main_format", "done"}

\* C1: for every decoded boot header the kernel, ramdisk and second entries lie
\* at page_size x 1, page_size x (1 + pages(kernel_size)) and
\* page_size x (1 + pages(kernel_size) + pages(ramdisk_size)), the page counts
\* and products being the exact numbers, with no 32-bit wrap-around.
C1_BootOffsetsExact ==
  BootDecoded =>
    LET ps == info.page_size
        kp == Pages(info.kernel_size, ps)
        rp == Pages(info.ramdisk_size, ps)
    IN /\ \A k \in EntriesNamed("kernel") : image_entries[k].offset = ps * 1
       /\ \A k \in EntriesNamed("ramdisk") : image_entries[k].offset = ps * (1 + kp)
       /\ \A k \in EntriesNamed("second") : image_entries[k].offset = ps * (1 + kp + rp)

\* The size field behind each boot entry name.
BootSizeOf(i, name) ==
  CASE name = "kernel" -> i.kernel_size
    [] name = "ramdisk" -> i.ramdisk_size
    [] name = "second" -> i.second_size
    [] name = "recovery_dtbo" -> i.recovery_dtbo_size
    [] name = "dtb" -> i.dtb_size
    [] name = "boot_signature" -> i.boot_signature_size

BootEntryNames == {"kernel", "ramdisk", "second", "recovery_dtbo", "dtb", "boot_signature"}

\* C2: in the boot layout each of kernel, ramdisk, second, recovery_dtbo, dtb and
\* boot_signature has an entry if and only if its size field is greater than 0;
\* a zero-sized sub-image gets no entry and no output file, and no entry is empty.
C2_BootEntryIffSizePositive ==
  BootDecoded =>
    /\ \A name \in BootEntryNames :
         Cardinality(EntriesNamed(name)) = IF BootSizeOf(info, name) > 0 THEN 1 ELSE 0
    /\ \A k \in 1..Len(image_entries) :
         /\ image_entries[k].name \in BootEntryNames
         /\ image_entries[k].size = BootSizeOf(info, image_entries[k].name)
         /\ image_entries[k].size > 0
    /\ \A x \in fs.files : x.name \in BootEntryNames /\ BootSizeOf(info, x.name) > 0

\* A boot image with a kernel and no ramdisk was unpacked: the kernel file
\* exists and no ramdisk file does.
C2_Witness ==
  /\ BootDecoded
  /\ returned.kind = "boot"
  /\ returned.kernel_size > 0
  /\ returned.ramdisk_size = 0
  /\ returned.second_size = 0
  /\ \E x \in fs.files : x.name = "kernel"
  /\ \A x \in fs.files : x.name # "ramdisk"

\* The bytes the header of a file asks for: the fixed prefix that holds the
\* version, then the fields of that version.
HeaderEnd(f) ==
  IF f.fmt = "boot"
  THEN IF f.len < PlanBytes(BootPrefixPlan) THEN PlanBytes(BootPrefixPlan)
       ELSE BootHeaderBytes(f.w8)
  ELSE IF f.len < PlanBytes(VendorHeaderPlan) THEN PlanBytes(VendorHeaderPlan)
       ELSE VendorHeaderBytes(f.header_version)

\* C3: when the stream ends before a header field was read in full (a
\* fixed-width integer or a fixed-length string), the decoder fails with the
\* read error; a string field cut short is never accepted.
C3_ShortReadFails ==
  (/\ decoder \in {"boot", "vendor"}
   /\ pc \notin {"main", "boot_header", "vendor_header"}
   /\ file.len < HeaderEnd(file))
  => err.type = "FileReadError"

\* C4: the boot decoder returns a record only for a stream whose 8-byte magic
\* is "ANDROID!", the vendor-boot decoder only for "VNDRBOOT".
C4_MagicChecked ==
  /\ returned.kind = "boot" => MagicBytes(file) = BOOT_MAGIC
  /\ returned.kind = "vendor" => MagicBytes(file) = VENDOR_BOOT_MAGIC

\* The symlink requests that point at an output file.
LinksTo(output_name) == {k \in 1..Len(fs.links) : fs.links[k].target = output_name}

\* C5: for every table entry decoded at header_version > 3, exactly one symlink
\* request "ramdisk_" + name is made when the declared name is non-empty, and
\* none when it is empty.
C5_SymlinkIffNamed ==
  (returned.kind = "vendor" /\ returned.header_version > 3) =>
    \A k \in 1..Len(returned.vendor_ramdisk_table) :
      LET e == returned.vendor_ramdisk_table[k]
      IN Cardinality(LinksTo(e.output_name)) = IF e.name # << >> THEN 1 ELSE 0

\* C6: at header_version > 3, table entry i (from 0) is read at
\* page_size x (pages(header_size) + pages(vendor_ramdisk_size) + pages(dtb_size))
\* + i x vendor_ramdisk_table_entry_size, computed exactly.
C6_TableOffsetsExact ==
  (VendorDecoded /\ info.header_version > 3) =>
    \A n \in 1..Len(entry_offsets) :
      entry_offsets[n] =
        info.page_size * (Pages(info.header_size, info.page_size)
                          + Pages(info.vendor_ramdisk_size, info.page_size)
                          + Pages(info.dtb_size, info.page_size))
        + (n - 1) * info.vendor_ramdisk_table_entry_size

\* The header fields a boot header_version carries beyond the magic, the nine
\* words and the command line.
BootOptionalFields(v) ==
  (IF v < 3 THEN {"os_version_patch_level", "product_name", "sha", "extra_cmdline"} ELSE {})
  \cup (IF v \in {1, 2} THEN {"recovery_dtbo_size", "recovery_dtbo_offset", "boot_header_size"}
        ELSE {})
  \cup (IF v = 2 THEN {"dtb_size", "dtb_load_address"} ELSE {})
  \cup (IF v >= 4 THEN {"boot_signature_size"} ELSE {})

BootCommonFields ==
  {"boot_magic", "w0", "w1", "w2", "w3", "w4", "w5", "w6", "w7", "w8", "cmdline"}

\* The header bytes each version is said to take.
BootHeaderBytesStated(v) ==
  CASE v = 0 -> 1632 [] v = 1 -> 1648 [] v = 2 -> 1660 [] v = 3 -> 1580 [] v >= 4 -> 1584

\* header_version alone decides the fields read and populated; a field outside
\* its version is 0 or empty and page_size is 4096 from version 3 on.
BootFieldsGated ==
  LET v == info.header_version
  IN /\ {reads[k] : k \in 1..Len(reads)} = BootCommonFields \cup BootOptionalFields(v)
     /\ Len(reads) = Cardinality(BootCommonFields \cup BootOptionalFields(v))
     /\ v >= 3 => /\ info.kernel_load_address = 0 /\ info.ramdisk_load_address = 0
                  /\ info.second_load_address = 0 /\ info.tags_load_address = 0
                  /\ info.second_size = 0 /\ info.page_size = 4096
                  /\ info.product_name = << >> /\ info.extra_cmdline = << >>
     /\ v < 3 => /\ info.kernel_load_address = file.w1 /\ info.ramdisk_load_address = file.w3
                 /\ info.second_size = file.w4 /\ info.second_load_address = file.w5
                 /\ info.tags_load_address = file.w6 /\ info.page_size = file.w7
     /\ v \notin {1, 2} => /\ info.recovery_dtbo_size = 0 /\ info.recovery_dtbo_offset = 0
                           /\ info.boot_header_size = 0
     /\ v \in {1, 2} => /\ info.recovery_dtbo_size = file.recovery_dtbo_size
                        /\ info.recovery_dtbo_offset = file.recovery_dtbo_offset
                        /\ info.boot_header_size = file.boot_header_size
     /\ v # 2 => info.dtb_size = 0 /\ info.dtb_load_address = 0
     /\ v = 2 => info.dtb_size = file.dtb_size /\ info.dtb_load_address = file.dtb_load_address
     /\ v < 4 => info.boot_signature_size = 0
     /\ v >= 4 => info.boot_signature_size = file.boot_signature_size

\* C7: after a successful boot header decode, header_version alone decides the
\* optional fields read and populated, every other field is 0 or empty, and the
\* decoder has consumed 1632, 1648, 1660, 1580 or 1584 header bytes for
\* versions 0, 1, 2, 3 and >= 4.
C7_VersionDeterminesFields ==
  (decoder = "boot" /\ pc = "boot_create_dir") =>
    /\ BootFieldsGated
    /\ stream.pos = BootHeaderBytesStated(info.header_version)

\* C8: the boot_signature entry lies at
\* page_size x (1 + pages(kernel_size) + pages(ramdisk_size)), whatever
\* second_size, recovery_dtbo_size and dtb_size are.
C8_BootSignatureOffset ==
  BootDecoded =>
    \A k \in EntriesNamed("boot_signature") :
      image_entries[k].offset =
        info.page_size * (1 + Pages(info.kernel_size, info.page_size)
                            + Pages(info.ramdisk_size, info.page_size))

\* C9: the recovery_dtbo entry lies at the header's recovery_dtbo_offset as
\* given, and the dtb entry at page_size x (1 + pages(kernel_size) +
\* pages(ramdisk_size) + pages(second_size) + pages(recovery_dtbo_size)).
C9_DtboVerbatimDtbComputed ==
  BootDecoded =>
    /\ \A k \in EntriesNamed("recovery_dtbo") :
         image_entries[k].offset = info.recovery_dtbo_offset
    /\ \A k \in EntriesNamed("dtb") :
         image_entries[k].offset =
           info.page_size * (1 + Pages(info.kernel_size, info.page_size)
                               + Pages(info.ramdisk_size, info.page_size)
                               + Pages(info.second_size, info.page_size)
                               + Pages(info.recovery_dtbo_size, info.page_size))

\* C10: at header_version <= 3 the vendor layout holds exactly one ramdisk
\* entry, "vendor_ramdisk", at page_size x pages(header_size) with size
\* vendor_ramdisk_size (also when that is 0), and neither table entries nor a
\* bootconfig entry.
C10_SingleVendorRamdisk ==
  (VendorLaidOut /\ info.header_version <= 3) =>
    /\ Cardinality(EntriesNamed("vendor_ramdisk")) = 1
    /\ \A k \in EntriesNamed("vendor_ramdisk") :
         /\ image_entries[k].offset = info.page_size * Pages(info.header_size, info.page_size)
         /\ image_entries[k].size = info.vendor_ramdisk_size
    /\ \A k \in 1..Len(image_entries) : image_entries[k].name \in {"vendor_ramdisk", "dtb"}
    /\ entry_offsets = << >>
    /\ info.vendor_ramdisk_table = << >>

\* The output file name of table entry n (from 0): "vendor_ramdisk" and the
\* index in two digits.
TwoDigitName(n) == IF n < 10 THEN "vendor_ramdisk0" \o ToString(n) ELSE "vendor_ramdisk" \o ToString(n)

\* C11: at header_version > 3 each decoded table entry i yields exactly one image
\* entry, named "vendor_ramdisk" + two-digit i whatever the declared name, of
\* size entry.size, at ramdisk_base + entry.offset with
\* ramdisk_base = page_size x pages(header_size), the sum taken exactly.
C11_TableEntryImage ==
  (VendorDecoded /\ info.header_version > 3) =>
    \A k \in 1..Len(info.vendor_ramdisk_table) :
      LET e == info.vendor_ramdisk_table[k]
      IN /\ EntriesNamed(TwoDigitName(k - 1)) = {k}
         /\ image_entries[k].size = e.size
         /\ image_entries[k].offset =
              info.page_size * Pages(info.header_size, info.page_size) + e.offset

\* C12: at header_version > 3 the layout always holds one "bootconfig" entry,
\* after all table entries, of size vendor_bootconfig_size (also when that is 0),
\* at page_size x (pages(header_size) + pages(vendor_ramdisk_size)
\* + pages(dtb_size) + pages(vendor_ramdisk_table_size)).
C12_BootconfigEntry ==
  (VendorLaidOut /\ info.header_version > 3) =>
    LET n == Len(info.vendor_ramdisk_table)
        ps == info.page_size
    IN /\ EntriesNamed("bootconfig") = {n + 1}
       /\ image_entries[n + 1].size = info.vendor_bootconfig_size
       /\ image_entries[n + 1].offset =
            ps * (Pages(info.header_size, ps) + Pages(info.vendor_ramdisk_size, ps)
                  + Pages(info.dtb_size, ps) + Pages(info.vendor_ramdisk_table_size, ps))

\* C13: for every vendor-boot header version the layout holds a "dtb" entry if
\* and only if dtb_size > 0, of size dtb_size, at
\* page_size x (pages(header_size) + pages(vendor_ramdisk_size)).
C13_VendorDtbEntry ==
  VendorLaidOut =>
    /\ Cardinality(EntriesNamed("dtb")) = IF info.dtb_size > 0 THEN 1 ELSE 0
    /\ \A k \in EntriesNamed("dtb") :
         /\ image_entries[k].size = info.dtb_size
         /\ image_entries[k].offset =
              info.page_size * (Pages(info.header_size, info.page_size)
                                + Pages(info.vendor_ramdisk_size, info.page_size))

VendorTableFields ==
  {"vendor_ramdisk_table_size", "vendor_ramdisk_table_entry_num",
   "vendor_ramdisk_table_entry_size", "vendor_bootconfig_size"}

\* C14: after a successful vendor-boot decode the four table fields were read
\* from the stream only at header_version > 3 and are 0 otherwise; the decoded
\* table is empty at header_version <= 3 and otherwise holds exactly
\* vendor_ramdisk_table_entry_num entries, in increasing index order.
C14_TableFieldsGated ==
  returned.kind = "vendor" =>
    LET read == {reads[k] : k \in 1..Len(reads)}
    IN IF returned.header_version > 3
       THEN /\ VendorTableFields \subseteq read
            /\ returned.vendor_ramdisk_table_size = file.vendor_ramdisk_table_size
            /\ returned.vendor_ramdisk_table_entry_num = file.vendor_ramdisk_table_entry_num
            /\ returned.vendor_ramdisk_table_entry_size = file.vendor_ramdisk_table_entry_size
            /\ returned.vendor_bootconfig_size = file.vendor_bootconfig_size
            /\ Len(returned.vendor_ramdisk_table) = returned.vendor_ramdisk_table_entry_num
            /\ \A k \in 1..Len(returned.vendor_ramdisk_table) :
                 LET e == returned.vendor_ramdisk_table[k]
                 IN /\ e.output_name = TwoDigitName(k - 1)
                    /\ e.size = file.entries[k].size
                    /\ e.offset = file.entries[k].offset
                    /\ e.type = file.entries[k].type
       ELSE /\ VendorTableFields \cap read = {}
            /\ returned.vendor_ramdisk_table_size = 0
            /\ returned.vendor_ramdisk_table_entry_num = 0
            /\ returned.vendor_ramdisk_table_entry_size = 0
            /\ returned.vendor_bootconfig_size = 0
            /\ returned.vendor_ramdisk_table = << >>

\* A version 4 image with two table entries was decoded and returned.
C14_Witness ==
  /\ returned.kind = "vendor"
  /\ returned.header_version > 3
  /\ returned.vendor_ramdisk_table_entry_num = 2
  /\ Len(returned.vendor_ramdisk_table) = 2
  /\ returned.vendor_ramdisk_table[1].size # returned.vendor_ramdisk_table[2].size

\* The reconstruction arguments were printed.
ArgumentsPrinted == cout.renderer = "FormatMkbootimgArguments"

\* The positions of a flag in the printed arguments.
FlagPositions(flag) ==
  {k \in 1..Len(cout.written) : k % 2 = 1 /\ cout.written[k].arg = Text(flag)}

\* C15: both reconstruction-argument renderers omit a flag/value pair whenever
\* the field behind it is empty or zero-sized, --header_version excepted: no
\* printed value is the empty string and no sub-image path flag is printed for
\* a sub-image of size 0.
C15_NoEmptyOrZeroSizedArguments ==
  ArgumentsPrinted =>
    /\ \A k \in 1..Len(cout.written) : cout.written[k].arg # Text("")
    /\ returned.kind = "boot" =>
         /\ FlagPositions("--kernel") # {} => returned.kernel_size > 0
         /\ FlagPositions("--ramdisk") # {} => returned.ramdisk_size > 0
         /\ FlagPositions("--second") # {} => returned.second_size > 0
         /\ FlagPositions("--recovery_dtbo") # {} => returned.recovery_dtbo_size > 0
         /\ FlagPositions("--dtb") # {} => returned.dtb_size > 0
    /\ returned.kind = "vendor" =>
         /\ FlagPositions("--dtb") # {} => returned.dtb_size > 0
         /\ FlagPositions("--vendor_bootconfig") # {} => returned.vendor_bootconfig_size > 0
         /\ returned.header_version <= 3 =>
              (FlagPositions("--vendor_ramdisk") # {} => returned.vendor_ramdisk_size > 0)
         /\ returned.header_version > 3 =>
              \A n \in 1..Len(returned.vendor_ramdisk_table) :
                LET e == returned.vendor_ramdisk_table[n]
                IN (\E k \in FlagPositions("--vendor_ramdisk")
                           \cup FlagPositions("--vendor_ramdisk_fragment") :
                      cout.written[k + 1].arg = Path(returned.image_dir, e.output_name))
                   => e.size > 0

\* The arguments printed, in order.
PrintedArgs == [k \in 1..Len(cout.written) |-> cout.written[k].arg]

\* The number of arguments a table entry takes: one pair without a declared
\* name, three pairs with one.
EntryWidth(e) == IF e.name = << >> THEN 2 ELSE 6

\* The number of arguments the first n table entries take.
RECURSIVE WidthBefore(_, _)
WidthBefore(table, n) ==
  IF n = 0 THEN 0 ELSE WidthBefore(table, n - 1) + EntryWidth(table[n])

\* C16: in the vendor-boot reconstruction arguments at header_version > 3 the
\* table entries are rendered in table order after the bootconfig pair; an
\* entry without a declared name as the pair --vendor_ramdisk <path of
\* output_name>, an entry with one as the consecutive pairs --ramdisk_type
\* <label>, --ramdisk_name <name>, --vendor_ramdisk_fragment <path of output_name>.
C16_TableEntryArguments ==
  (ArgumentsPrinted /\ returned.kind = "vendor" /\ returned.header_version > 3) =>
    LET table == returned.vendor_ramdisk_table
        a == PrintedArgs
    IN \E base \in FlagPositions("--vendor_bootconfig") :
         /\ Len(a) = base + 1 + WidthBefore(table, Len(table))
         /\ \A n \in 1..Len(table) :
              LET e == table[n]
                  at == base + 1 + WidthBefore(table, n - 1)
                  path == Text(returned.image_dir \o "/" \o e.output_name)
              IN IF e.name = << >>
                 THEN /\ a[at + 1] = Text("--vendor_ramdisk")
                      /\ a[at + 2] = path
                 ELSE /\ a[at + 1] = Text("--ramdisk_type")
                      /\ a[at + 2] = Text(getRamdiskType(e.type))
                      /\ a[at + 3] = Text("--ramdisk_name")
                      /\ a[at + 4] = Bytes(e.name)
                      /\ a[at + 5] = Text("--vendor_ramdisk_fragment")
                      /\ a[at + 6] = path

\* The arguments of a version 4 record were printed whose table holds a named
\* entry followed by an entry without a name.
C16_Witness ==
  /\ ArgumentsPrinted
  /\ returned.kind = "vendor"
  /\ returned.header_version > 3
  /\ Len(returned.vendor_ramdisk_table) = 2
  /\ returned.vendor_ramdisk_table[1].name # << >>
  /\ returned.vendor_ramdisk_table[2].name = << >>

\* The input does not start with the 8 bytes of either magic.
NoValidMagic ==
  file.len < MAGIC_SIZE \/ MagicBytes(file) \notin {BOOT_MAGIC, VENDOR_BOOT_MAGIC}

\* C17: the program runs a decoder only after reading 8 bytes that are exactly
\* "ANDROID!" (boot decoder) or "VNDRBOOT" (vendor-boot decoder); for any other
\* 8 bytes, or fewer than 8, no decoder runs, no directory or file is created,
\* nothing is rendered and the process exits with a failure status.
C17_MagicDispatch ==
  caller = "main" =>
    /\ decoder = "boot" => file.len >= MAGIC_SIZE /\ MagicBytes(file) = BOOT_MAGIC
    /\ decoder = "vendor" => file.len >= MAGIC_SIZE /\ MagicBytes(file) = VENDOR_BOOT_MAGIC
    /\ (pc # "main" /\ ~NoValidMagic) => decoder \in {"boot", "vendor"}
    /\ NoValidMagic =>
         /\ decoder = "none"
         /\ reads = << >>
         /\ info = NoRecord /\ returned = NoRecord
         /\ fs = EmptyFs
         /\ cout = NoOutput
         /\ pc \in {"main", "exited"}
         /\ pc = "exited" => exit_status = "EXIT_FAILURE"

\* The program exited on an input that holds 8 bytes which are no magic.
C17_Witness ==
  /\ caller = "main"
  /\ pc = "exited"
  /\ file.len >= MAGIC_SIZE
  /\ MagicBytes(file) \notin {BOOT_MAGIC, VENDOR_BOOT_MAGIC}
  /\ exit_status = "EXIT_FAILURE"

\* A header read met the end of the input.
ShortHeaderRead ==
  /\ decoder \in {"boot", "vendor"}
  /\ pc \notin {"main", "boot_header", "vendor_header"}
  /\ file.len < HeaderEnd(file)

\* C18: a failure during decoding or extraction (a short read, a directory that
\* cannot be created, an extraction that fails) is terminal: no record is
\* returned, not even a partly populated one, no renderer runs, nothing reaches
\* standard output, the process exits with a failure status, nothing is retried.
C18_FailureIsTerminal ==
  (err.type # "none" \/ ShortHeaderRead) =>
    /\ returned = NoRecord
    /\ cout = NoOutput
    /\ exit_status # "EXIT_SUCCESS"
    /\ err.type # "none" =>
         /\ pc \in {"exited", "thrown"}
         /\ caller = "main" => exit_status = "EXIT_FAILURE"

\* The header field an error context names; "" for a context that names none.
FieldNamedBy(context) ==
  CASE context = "boot magic" -> "boot_magic"
    [] context = "os/version patch level" -> "os_version_patch_level"
    [] context = "board name" -> "product_name"
    [] context = "boot cmdline" -> "cmdline"
    [] context = "SHA-1 checksum" -> "sha"
    [] context = "boot extra cmdline" -> "extra_cmdline"
    [] context \in {"recovery_dtbo_size", "recovery_dtbo_offset", "boot_header_size",
                    "dtb_size", "dtb_load_address", "boot_signature_size"} -> context
    [] OTHER -> ""

\* C19: when a header field read fails, the error the decoder raises carries a
\* context naming the field whose read failed, for every field of the boot
\* header (the nine leading words included), of the vendor-boot header and of a
\* ramdisk table entry.
C19_ContextNamesField ==
  err.type = "FileReadError" =>
    /\ reads # << >>
    /\ FieldNamedBy(err.context) = reads[Len(reads)]

\* The n bits of a packed value from bit lo up.
Bits(p, lo, n) == (p \div (2 ^ lo)) % (2 ^ n)

\* The packed OS value of the input, where its header_version puts it.
PackedOsValue == IF file.w8 < 3 THEN file.os_version_patch_level ELSE file.w2

\* A month in two digits.
TwoDigits(m) == IF m < 10 THEN "0" \o ToString(m) ELSE ToString(m)

\* C20: for a packed value p with non-zero version bits (11-31) the decoded
\* os_version is "A.B.C", A = bits 25-31, B = bits 18-24, C = bits 11-17 in
\* decimal; with a month (bits 0-3) in 1..12 the decoded os_patch_level is
\* "YYYY-MM", YYYY = 2000 + bits 4-10, MM the month in two digits; the packed
\* 10.0.0 / 2021-03 yields exactly "10.0.0" and "2021-03".
C20_OsVersionDecoded ==
  BootDecoded =>
    LET p == PackedOsValue
        month == Bits(p, 0, 4)
    IN /\ Bits(p, 11, 21) # 0 =>
            info.os_version = ToString(Bits(p, 25, 7)) \o "." \o ToString(Bits(p, 18, 7))
                              \o "." \o ToString(Bits(p, 11, 7))
       /\ month \in 1..12 =>
            info.os_patch_level = ToString(2000 + Bits(p, 4, 7)) \o "-" \o TwoDigits(month)
       /\ p = 335544659 => info.os_version = "10.0.0" /\ info.os_patch_level = "2021-03"

\* A header packing 10.0.0 and 2021-03 was decoded.
C20_Witness ==
  /\ BootDecoded
  /\ PackedOsValue = 335544659
  /\ info.os_version = "10.0.0"
  /\ info.os_patch_level = "2021-03"

\* C21: the decoded os_version is absent whenever the 21 version bits of the
\* packed value are 0, the os_patch_level is absent whenever the 11 patch bits
\* are 0 (a packed 0 yields both absent) and whenever the month (low 4 bits) is
\* 0, 13, 14 or 15, whatever the year bits; no string with a month outside
\* 01..12 is ever returned.
C21_OsVersionAbsent ==
  BootDecoded =>
    LET p == PackedOsValue
        d == DecodeOsVersionPatchLevel(p)
        month == Bits(p, 0, 4)
    IN /\ Bits(p, 11, 21) = 0 => ~d.os_version.has_value /\ info.os_version = ""
       /\ Bits(p, 0, 11) = 0 => ~d.os_patch_level.has_value /\ info.os_patch_level = ""
       /\ month \in {0, 13, 14, 15} =>
            ~d.os_patch_level.has_value /\ info.os_patch_level = ""
       /\ info.os_patch_level # "" =>
            \E m \in 1..12 :
              info.os_patch_level = ToString(2000 + Bits(p, 4, 7)) \o "-" \o TwoDigits(m)

\* A header was decoded whose packed value holds a version, year bits and the
\* month 13: the patch level is absent, the version is not.
C21_Witness ==
  /\ BootDecoded
  /\ Bits(PackedOsValue, 0, 4) = 13
  /\ Bits(PackedOsValue, 4, 7) = 21
  /\ info.os_version = "10.0.0"
  /\ info.os_patch_level = ""

\* main has printed the pretty text of the record the decoder returned.
PrettyPrinted == pc = "exited" /\ cout.renderer = "FormatPrettyText"

\* Two consecutive pieces of the report among from..to read together as `line`.
Shows(from, to, line) ==
  \E k \in from..(to - 1) :
    /\ cout.written[k].bytes = << >>
    /\ cout.written[k + 1].bytes = << >>
    /\ cout.written[k].text \o cout.written[k + 1].text = line

ShowsDec(from, to, label, n) == Shows(from, to, label \o ": " \o ToString(n))

ShowsHex(from, to, label, n) == Shows(from, to, label \o ": 0x" \o ToHex(n))

\* Where the block of table entry n (from 1) starts in the report, and the end
\* of the report for the entry after the last.
EntryStart(n) ==
  IF n > Len(returned.vendor_ramdisk_table) THEN Len(cout.written)
  ELSE CHOOSE k \in 1..Len(cout.written) :
         cout.written[k] = Text(returned.vendor_ramdisk_table[n].output_name)

\* The lines of the header fields: addresses and offsets in hexadecimal after
\* "0x", sizes and the header version in decimal.
PrettyHeaderLines ==
  LET i == returned
      v == i.header_version
      last == Len(cout.written)
  IN IF i.kind = "boot"
     THEN /\ ShowsDec(1, last, "page size", i.page_size)
          /\ ShowsDec(1, last, "boot image header version", v)
          /\ v < 3 =>
               /\ ShowsDec(1, last, "kernel_size", i.kernel_size)
               /\ ShowsHex(1, last, "kernel load address", i.kernel_load_address)
               /\ ShowsDec(1, last, "ramdisk size", i.ramdisk_size)
               /\ ShowsHex(1, last, "ramdisk load address", i.ramdisk_load_address)
               /\ ShowsDec(1, last, "second bootloader size", i.second_size)
               /\ ShowsHex(1, last, "second bootloader load address",
                           i.second_load_address)
               /\ ShowsHex(1, last, "kernel tags load address", i.tags_load_address)
          /\ v \in {1, 2} =>
               /\ ShowsDec(1, last, "recovery dtbo size", i.recovery_dtbo_size)
               /\ ShowsHex(1, last, "recovery dtbo offset", i.recovery_dtbo_offset)
               /\ ShowsDec(1, last, "boot header size", i.boot_header_size)
          /\ v = 2 =>
               /\ ShowsDec(1, last, "dtb size", i.dtb_size)
               /\ ShowsHex(1, last, "dtb address", i.dtb_load_address)
          /\ v >= 4 =>
               ShowsDec(1, last, "boot.img signature size", i.boot_signature_size)
     ELSE /\ ShowsDec(1, last, "vendor boot image header version", v)
          /\ ShowsDec(1, last, "page size", i.page_size)
          /\ ShowsHex(1, last, "kernel load address", i.kernel_load_address)
          /\ ShowsHex(1, last, "ramdisk load address", i.ramdisk_load_address)
          /\ ShowsDec(1, last, IF v > 3 THEN "vendor ramdisk total size"
                               ELSE "vendor ramdisk size", i.vendor_ramdisk_size)
          /\ ShowsHex(1, last, "kernel tags load address", i.tags_load_address)
          /\ ShowsDec(1, last, "vendor boot image header size", i.header_size)
          /\ ShowsDec(1, last, "dtb size", i.dtb_size)
          /\ ShowsHex(1, last, "dtb address", i.dtb_load_address)
          /\ v > 3 =>
               /\ ShowsDec(1, last, "vendor ramdisk table size",
                           i.vendor_ramdisk_table_size)
               /\ ShowsDec(1, last, "vendor bootconfig size", i.vendor_bootconfig_size)

\* The size line of every table entry, in decimal.
PrettyEntrySizes ==
  returned.kind = "vendor" =>
    \A n \in 1..Len(returned.vendor_ramdisk_table) :
      ShowsDec(EntryStart(n), EntryStart(n + 1), "        size",
               returned.vendor_ramdisk_table[n].size)

\* The offset and type lines of every table entry, in hexadecimal after "0x".
PrettyEntryOffsetsAndTypes ==
  returned.kind = "vendor" =>
    \A n \in 1..Len(returned.vendor_ramdisk_table) :
      LET entry == returned.vendor_ramdisk_table[n]
      IN /\ ShowsHex(EntryStart(n), EntryStart(n + 1), "        offset", entry.offset)
         /\ ShowsHex(EntryStart(n), EntryStart(n + 1), "        type", entry.type)

\* C22: in the pretty text of a boot or a vendor boot record every address,
\* offset and type is written in hexadecimal after "0x" and every size and
\* count in decimal, at every header_version and for every ramdisk table entry.
C22_HexAddressesDecimalSizes ==
  PrettyPrinted => PrettyHeaderLines /\ PrettyEntrySizes /\ PrettyEntryOffsetsAndTypes

\* The extraction loop is at an entry of size 0.
ZeroSizedTurn ==
  /\ pc \in {"boot_extract", "vendor_extract"}
  /\ next_entry <= Len(image_entries)
  /\ image_entries[next_entry].size = 0

\* C23: an entry of size 0 that the layout includes is extracted as an empty
\* file and the loop goes on, whatever the entry's offset and wherever the
\* source ends: the source is neither sought nor read, the turn can always
\* succeed, and the only way it fails is that the destination file cannot be
\* opened for writing, in which case nothing is created.
C23_ZeroSizedEntryExtracted ==
  /\ [][ZeroSizedTurn =>
          LET entry == image_entries[next_entry]
          IN /\ stream' = stream
             /\ \/ /\ next_entry' = next_entry + 1
                   /\ [name |-> entry.name, size |-> 0] \in fs'.files
                   /\ err' = NoError
                \/ /\ fs' = fs
                   /\ err'.context = "Could not extract image"]_vars
  /\ [](ZeroSizedTurn =>
          ENABLED <<(UnpackBootImageExtract \/ UnpackVendorBootImageExtract)
                    /\ next_entry' = next_entry + 1>>_vars)

\* A zero-sized fragment, the bootconfig of size 0 and (at header_version 3) the
\* vendor_ramdisk of size 0 were extracted as empty files although each lies
\* beyond the end of the source.
C23_Witness ==
  /\ pc = "vendor_extract"
  /\ next_entry > Len(image_entries)
  /\ \A k \in 1..Len(image_entries) :
       /\ image_entries[k].size = 0
       /\ image_entries[k].offset >= file.len
       /\ [name |-> image_entries[k].name, size |-> 0] \in fs.files
  /\ \E k \in 1..Len(image_entries) :
       image_entries[k].name \in {"vendor_ramdisk00", "vendor_ramdisk"}

\* The label of a ramdisk type as stated: three named types, "none" otherwise.
TypeLabel(t) ==
  IF t = 1 THEN "platform" ELSE IF t = 2 THEN "recovery" ELSE IF t = 3 THEN "dlkm" ELSE "none"

TypeValues == {0, 1, 2, 3, 4, 9, U32 - 1}

\* C24: the ramdisk type label is total: 0 is "none", 1 "platform", 2 "recovery",
\* 3 "dlkm" and every other value "none"; the pretty text shows every table
\* entry's type as this label, the reconstruction arguments give it as the value
\* of --ramdisk_type for every named entry, and a vendor record that was
\* decoded is rendered whatever the types of its entries.
C24_TypeLabelTotal ==
  /\ \A t \in TypeValues : getRamdiskType(t) = TypeLabel(t)
  /\ (pc = "exited" /\ returned # NoRecord /\ returned.kind = "vendor") =>
       LET table == returned.vendor_ramdisk_table
       IN /\ exit_status = "EXIT_SUCCESS"
          /\ PrettyPrinted =>
               \A n \in 1..Len(table) :
                 Shows(EntryStart(n), EntryStart(n + 1),
                       "        type: " \o TypeLabel(table[n].type))
          /\ (ArgumentsPrinted /\ returned.header_version > 3) =>
               \E base \in FlagPositions("--vendor_bootconfig") :
                 \A n \in 1..Len(table) :
                   LET at == base + 1 + WidthBefore(table, n - 1)
                   IN table[n].name # << >> =>
                        /\ PrintedArgs[at + 1] = Text("--ramdisk_type")
                        /\ PrintedArgs[at + 2] = Text(TypeLabel(table[n].type))

\* The arguments of a record were printed whose table holds an entry of a named
\* type and a named entry of type 9, which is outside the four values.
C24_Witness ==
  /\ pc = "exited"
  /\ ArgumentsPrinted
  /\ returned.kind = "vendor"
  /\ Len(returned.vendor_ramdisk_table) = 2
  /\ returned.vendor_ramdisk_table[1].type = 1
  /\ returned.vendor_ramdisk_table[2].type = 9
  /\ returned.vendor_ramdisk_table[2].name # << >>

\* The sizes a decoder passes to GetNumberOfPages together with info.page_size.
PagedSizes ==
  IF info.kind = "boot"
  THEN {info.kernel_size, info.ramdisk_size, info.second_size, info.recovery_dtbo_size,
        info.dtb_size, info.boot_header_size}
  ELSE {info.header_size, info.vendor_ramdisk_size, info.dtb_size,
        info.vendor_ramdisk_table_size}

\* C25: for every 32-bit image_size and every page_size > 0 GetNumberOfPages is
\* the ceiling of image_size / page_size, also where image_size + page_size - 1
\* is 2^32 or more.
C25_PagesIsCeiling ==
  /\ GetNumberOfPages(0, 4096) = 0
  /\ GetNumberOfPages(1, 4096) = 1
  /\ GetNumberOfPages(4096, 4096) = 1
  /\ GetNumberOfPages(4097, 4096) = 2
  /\ (BootDecoded \/ VendorDecoded) =>
       \A image_size \in PagedSizes :
         info.page_size > 0 =>
           GetNumberOfPages(image_size, info.page_size) = Pages(image_size, info.page_size)

\* The names of the entries the boot layout places by a product of page_size.
PagePlacedNames == {"kernel", "ramdisk", "second", "dtb", "boot_signature"}

PathFlags ==
  {"--kernel", "--ramdisk", "--second", "--recovery_dtbo", "--dtb", "--vendor_bootconfig",
   "--vendor_ramdisk", "--vendor_ramdisk_fragment"}

\* The printed value at position k + 1 is the path of a file that the layout
\* holds an entry for and that the run wrote.
NamesExtractedFile(k) ==
  \E e \in 1..Len(image_entries) :
    /\ cout.written[k + 1].arg = Path(returned.image_dir, image_entries[e].name)
    /\ \E f \in fs.files : f.name = image_entries[e].name

\* C27: every path printed as the value of --kernel, --ramdisk, --second,
\* --recovery_dtbo, --dtb, --vendor_bootconfig, --vendor_ramdisk or
\* --vendor_ramdisk_fragment names a file the same run extracted: the layout
\* holds an entry of that name.
C27_PathsNameExtractedFiles ==
  (pc = "exited" /\ ArgumentsPrinted) =>
    \A k \in 1..Len(cout.written) :
      (k % 2 = 1 /\ \E flag \in PathFlags : cout.written[k].arg = Text(flag)) =>
        NamesExtractedFile(k)

\* C28: in both decoders every read of the header and of the ramdisk table
\* precedes the creation of the output directory and every file write: a step
\* that reads leaves the filesystem as it was before the run, and a decode that
\* fails on a read ends with the filesystem unchanged.
C28_ReadsPrecedeWrites ==
  [][/\ reads' # reads => fs = EmptyFs /\ fs' = EmptyFs
     /\ err'.type = "FileReadError" => fs' = EmptyFs]_vars

\* The read of the second table entry failed after the first was decoded, and
\* nothing was created.
C28_Witness ==
  /\ err.type = "FileReadError"
  /\ err.context = "ramdisk: "
  /\ Len(info.vendor_ramdisk_table) = 1
  /\ fs = EmptyFs

\* C29: in the layout of a decoded boot header a boot_signature entry never
\* stands with a second, recovery_dtbo or dtb entry: second_size,
\* recovery_dtbo_size and dtb_size are non-zero only at header_version < 3 and
\* boot_signature_size only at header_version >= 4, so the offset that
\* boot_signature shares with second is never given to both in one layout.
C29_SignatureExcludesLegacyEntries ==
  BootDecoded =>
    /\ info.second_size > 0 => info.header_version < 3
    /\ info.recovery_dtbo_size > 0 => info.header_version < 3
    /\ info.dtb_size > 0 => info.header_version < 3
    /\ info.boot_signature_size > 0 => info.header_version >= 4
    /\ EntriesNamed("boot_signature") # {} =>
         EntriesNamed("second") \cup EntriesNamed("recovery_dtbo") \cup EntriesNamed("dtb") = {}

\* A version 4 header was laid out with a kernel, a ramdisk and a boot_signature.
C29_Witness ==
  /\ BootDecoded
  /\ info.header_version >= 4
  /\ EntriesNamed("boot_signature") # {}
  /\ EntriesNamed("kernel") # {}
  /\ EntriesNamed("ramdisk") # {}

\* The flags of the boot reconstruction arguments.
BootFlags ==
  {"--header_version", "--os_version", "--os_patch_level", "--kernel", "--ramdisk",
   "--dtb", "--dtb_offset", "--second", "--recovery_dtbo", "--pagesize", "--base",
   "--kernel_offset", "--ramdisk_offset", "--board", "--cmdline"}

\* The printed boot arguments are flag/value pairs: an even number of elements,
\* a "--" flag at every first place of a pair.
BootArgumentsArePairs ==
  /\ Len(cout.written) % 2 = 0
  /\ \A k \in 1..Len(cout.written) :
       k % 2 = 1 => \E flag \in BootFlags : cout.written[k].arg = Text(flag)

\* C30: the boot reconstruction arguments are a flat sequence of flag/value
\* pairs in which no flag occurs more than once, at every header_version.
C30_BootFlagsPairedAndUnique ==
  (pc = "exited" /\ ArgumentsPrinted /\ returned.kind = "boot") =>
    /\ BootArgumentsArePairs
    /\ \A flag \in BootFlags : Cardinality(FlagPositions(flag)) <= 1

====
